---- MODULE Spec2Model ----
(***************************************************************************)
(* A model of simpled's resolver (src/src/resolver.rs) and of the loader   *)
(* checks it relies on (src/src/transform.rs).                             *)
(*                                                                         *)
(* Rust Strings are sequences of one-character strings, so that find,     *)
(* split_once, strip_suffix and format! are computed and not assumed.      *)
(* Option<T> is a sequence of length 0 (None) or 1 (Some).  Result<T> is   *)
(* a record [ok, val, err].  Offsets are 0-based as in the code; Slice     *)
(* converts to TLA+'s 1-based SubSeq.                                      *)
(***************************************************************************)
EXTENDS Integers, Sequences, FiniteSets, TLC

VARIABLES
    pc,                     \* position of the run
    input,                  \* resolve_variable_in_string: the template
    vars,                   \* resolve_variable_in_string: the variable slice
    env_yaml,               \* DeploymentEnvironmentSpecYaml given to convert_env_spec
    env_spec,               \* DeploymentEnvironmentSpec
    app_spec,               \* AppSpec
    deployment_name,        \* resolve(): the deployment asked for
    deployment,             \* the DeploymentSpec resolve() selected
    app_service,            \* the ServiceSpec of the current loop iteration
    host_domain_name,       \* resolve(): first domain of the service's host
    raw_image,              \* resolve(): the image before the registry rule
    image,                  \* resolve(): the resolved image
    environment_variables,  \* resolve_app_env_vars(): the accumulator
    idx,                    \* resolve_app_env_vars(): index in the current tier
    result,                 \* the Result the run returns
    os,                     \* the files and the process environment resolve() reads
    resolved_configs,       \* resolve(): Vec<ConfigResolvedSpec>
    resolved_secrets,       \* resolve(): Vec<SecretResolvedSpec>
    resolved_services,      \* resolve(): Vec<ServiceResolvedSpec>
    public_host_prefix_combinations,  \* resolve(): HashSet<(String, String)>
    service_index,          \* resolve(): position in app_spec.all_services()
    ingress_rules           \* resolve(): Vec<IngressRule>

allVars == <<pc, input, vars, env_yaml, env_spec, app_spec, deployment_name,
             deployment, app_service, host_domain_name, raw_image, image,
             environment_variables, idx, result, os, resolved_configs,
             resolved_secrets, resolved_services, public_host_prefix_combinations,
             service_index, ingress_rules>>

----------------------------------------------------------------------------
(* Bounds of the model *)

MaxTemplateLen == 5
MaxDecls == 3
MaxSelectors == 3
MaxPrefixes == 2
MaxInputLen == 5

----------------------------------------------------------------------------
(* Option, Result and String helpers *)

None == <<>>
Some(x) == <<x>>

NoErr == [msg |-> "", arg |-> <<>>, context |-> "", subject |-> <<>>]
Ok(v) == [ok |-> TRUE, val |-> v, err |-> NoErr]
\* anyhow!(msg, arg)
Err(m, a) == [ok |-> FALSE, val |-> <<>>,
              err |-> [msg |-> m, arg |-> a, context |-> "", subject |-> <<>>]]
\* Result::context(format!(c, s)): wraps an error, leaves Ok alone
WithContext(r, c, s) ==
    IF r.ok THEN r ELSE [r EXCEPT !.err.context = c, !.err.subject = s]

\* &s[a..b]
Slice(s, a, b) == SubSeq(s, a + 1, b)

\* str::find(pat): offset of the first occurrence of pat in s
StrFind(s, pat) ==
    LET hits == {k \in 0..(Len(s) - Len(pat)) : Slice(s, k, k + Len(pat)) = pat}
    IN IF hits = {} THEN None
       ELSE Some(CHOOSE k \in hits : \A j \in hits : k <= j)

DOLLAR_BRACE == <<"$", "{">>
CLOSE_BRACE == <<"}">>

----------------------------------------------------------------------------
(* resolve_variable_in_string, resolver.rs:315-341 *)

\* vars.iter().find(|v| v.name == var_name)
FindVarLenient(vs, var_name) ==
    LET hits == {k \in 1..Len(vs) : vs[k].name = var_name}
    IN IF hits = {} THEN Some([name |-> var_name, value |-> <<>>])
       ELSE Some(vs[CHOOSE k \in hits : \A j \in hits : k <= j])

FindVar(vs, var_name) ==
    LET hits == {k \in 1..Len(vs) : vs[k].name = var_name}
    IN IF hits = {} THEN None
       ELSE Some(vs[CHOOSE k \in hits : \A j \in hits : k <= j])

\* last_end = absolute_end + 1
KeepBrace(absolute_end) == absolute_end

AfterReference(absolute_end) == absolute_end + 1

\* input[absolute_start..].find('}')
FindClose(s, absolute_start) ==
    StrFind(Slice(s, absolute_start, Len(s)), CLOSE_BRACE)

RECURSIVE ResolveLoop(_, _, _, _)
ResolveLoop(in, vs, res, last_end) ==
    LET start == StrFind(Slice(in, last_end, Len(in)), DOLLAR_BRACE)
    IN IF start = None
       THEN Ok(res \o Slice(in, last_end, Len(in)))
       ELSE LET absolute_start == last_end + start[1]
                res1 == res \o Slice(in, last_end, absolute_start)
                end_offset == FindClose(in, absolute_start)
            IN IF end_offset = None
               THEN Err("Invalid variable reference", in)
               ELSE LET absolute_end == absolute_start + end_offset[1]
                        var_name == Slice(in, absolute_start + 2, absolute_end)
                        var == FindVar(vs, var_name)
                    IN IF var = None
                       THEN Err("Undefined variable", var_name)
                       ELSE ResolveLoop(in, vs, res1 \o var[1].value,
                                        AfterReference(absolute_end))

resolve_variable_in_string(in, vs) == ResolveLoop(in, vs, <<>>, 0)

----------------------------------------------------------------------------
(* add_unique_var, resolver.rs:307-313 *)

MinOf(S) == CHOOSE k \in S : \A j \in S : k <= j

\* the element of a singleton; in The({F(x) : x \in {e}}) the set constructor
\* binds x to the value of e, which F then reads any number of times
The(S) == CHOOSE v \in S : TRUE

\* a variant that appends whatever the names already bound
add_var_append(vs, var) == Append(vs, var)

\* a variant that never overwrites: the first binding of a name wins
add_var_keep_first(vs, var) ==
    IF \E k \in 1..Len(vs) : vs[k].name = var.name THEN vs ELSE Append(vs, var)

add_unique_var(vs, var) ==
    LET hits == {k \in 1..Len(vs) : vs[k].name = var.name}
    IN IF hits # {}
       THEN [vs EXCEPT ![MinOf(hits)].value = var.value]
       ELSE Append(vs, var)

----------------------------------------------------------------------------
(* convert_env_spec, transform.rs:249-323.  env_yaml carries the ingress   *)
(* and the deployments as convert_ingress and convert_deployment return    *)
(* them.                                                                   *)

EmptyMap == <<>>
MapGet(m, k) == IF k \in DOMAIN m THEN Some(m[k]) ELSE None
MapIsEmpty(m) == DOMAIN m = {}

EnvType(kind, ingress_type, swarm_mode) ==
    [kind |-> kind, ingress_type |-> ingress_type, swarm_mode |-> swarm_mode]
K8S == EnvType("K8S", "", FALSE)
Local == EnvType("Local", "", FALSE)

\* transform.rs:289: a variant that lets a Local descriptor keep its registry
AnyRegistryForLocal(registry) == TRUE

\* transform.rs:289: !registry.is_empty() is an error
RegistryAllowedForLocal(registry) == MapIsEmpty(registry)

\* a variant without the port check of a Local descriptor
NoPortErrors(deployments) == {}

\* transform.rs:296-310: the errors the port check of a Local descriptor can
\* end with; which one comes first depends on the HashMap's iteration order
LocalPortErrors(deployments) ==
    LET overridden(d) == IF deployments[d].services = None THEN {}
                         ELSE DOMAIN deployments[d].services[1]
        overrides == UNION {{<<d, n>> : n \in overridden(d)} :
                               d \in 1..Len(deployments)}
        ports(o) == deployments[o[1]].services[1][o[2]].ports
        claims == UNION {{<<o, k>> : k \in 1..Len(ports(o))} : o \in overrides}
    IN (IF \E o \in overrides : ports(o) = <<>>
        THEN {"In Local environment, service must have at least one port"}
        ELSE {})
       \cup
       (IF \E c1, c2 \in claims :
              c1 # c2 /\ ports(c1[1])[c1[2]].external = ports(c2[1])[c2[2]].external
        THEN {"Duplicate external port in deployment"}
        ELSE {})

\* the set of Results convert_env_spec can return for yaml
convert_env_spec(yaml) ==
    LET registry == IF yaml.registry = None THEN EmptyMap ELSE yaml.registry[1]
        deployments == yaml.deployments
        made(env_type) == Ok([env_type |-> env_type, ingress |-> yaml.ingress,
                              registry |-> registry, deployments |-> deployments])
    IN CASE yaml.env_type = "K8S" ->
               IF yaml.swarm_mode # None
               THEN {Err("swarm_mode cannot be set for K8S environment", <<>>)}
               ELSE IF yaml.ingress_type # None
               THEN {Err("ingress_type cannot be set for K8S environment", <<>>)}
               ELSE {made(K8S)}
         [] yaml.env_type = "Docker" ->
               LET swarm_mode == IF yaml.swarm_mode = None THEN FALSE
                                 ELSE yaml.swarm_mode[1]
               IN IF yaml.ingress_type = Some("nginx")
                  THEN {made(EnvType("Docker", "Nginx", swarm_mode))}
                  ELSE IF yaml.ingress_type \in {Some("traefik"), None}
                  THEN {made(EnvType("Docker", "Traefik", swarm_mode))}
                  ELSE {Err("Unknown ingress type", <<>>)}
         [] yaml.env_type = "Local" ->
               IF yaml.swarm_mode # None
               THEN {Err("swarm_mode cannot be set for Local environment", <<>>)}
               ELSE IF yaml.ingress_type # None
               THEN {Err("ingress_type cannot be set for Local environment", <<>>)}
               ELSE IF ~RegistryAllowedForLocal(registry)
               THEN {Err("registry must be empty for Local environment", <<>>)}
               ELSE IF Len(deployments) # 1
               THEN {Err("For Local environment exactly one deployment must be specified", <<>>)}
               ELSE IF LocalPortErrors(deployments) # {}
               THEN {Err(m, <<>>) : m \in LocalPortErrors(deployments)}
               ELSE {made(Local)}

----------------------------------------------------------------------------
(* resolve, resolver.rs:10-139: the deployment, the host and the image of  *)
(* one service                                                             *)

\* a variant that takes the first deployment whatever its name
AnyDeployment(env, name) ==
    IF env.deployments = <<>> THEN None ELSE Some(env.deployments[1])

\* resolver.rs:15-17
FindDeploymentByName(env, name) ==
    LET hits == {k \in 1..Len(env.deployments) : env.deployments[k].name = name}
    IN IF hits = {} THEN None ELSE Some(env.deployments[MinOf(hits)])

\* resolver.rs:79
DeploymentServiceOpt(dep, svc) ==
    IF dep.services = None THEN None ELSE MapGet(dep.services[1], svc.name)

\* resolver.rs:84-93
VariantName(ds_opt) ==
    IF ds_opt # None /\ ds_opt[1].variant # None
    THEN ds_opt[1].variant[1] ELSE "default"

\* a variant that ignores the service override's host
PrimaryHostOnly(dep, ds_opt) == dep.primary_host

\* resolver.rs:98-101
HostName(dep, ds_opt) ==
    IF ds_opt # None
    THEN (IF ds_opt[1].host # None THEN ds_opt[1].host[1] ELSE dep.primary_host)
    ELSE dep.primary_host

\* a variant that takes every host name, with an empty domain
UncheckedHost(env, host_name) == Some(<<>>)

\* resolver.rs:105-108: host.and_then(|h| h.domain_names.first())
FirstDomain(env, host_name) ==
    LET hosts == env.ingress.hosts
        hits == {k \in 1..Len(hosts) : hosts[k].name = host_name}
    IN IF hits = {} THEN None
       ELSE IF hosts[MinOf(hits)].domain_names = <<>> THEN None
       ELSE Some(hosts[MinOf(hits)].domain_names[1])

\* resolver.rs:118-121
SelectVariant(svc, variant_name) ==
    LET vs == svc.image_variants
        hits == {k \in 1..Len(vs) : vs[k].variant_name = variant_name}
    IN IF hits = {} THEN None ELSE Some(vs[MinOf(hits)].image)

\* semver::Version::to_string of major.minor.patch
Digit == <<"0", "1", "2", "3", "4", "5", "6", "7", "8", "9">>
RECURSIVE Decimal(_)
Decimal(n) == IF n < 10 THEN <<Digit[n + 1]>>
              ELSE Decimal(n \div 10) \o <<Digit[(n % 10) + 1]>>
VersionToString(v) ==
    Decimal(v[1]) \o <<".">> \o Decimal(v[2]) \o <<".">> \o Decimal(v[3])

LATEST == <<"l", "a", "t", "e", "s", "t">>

\* a variant that tags with the version in every environment
TagWithVersion(raw, is_app_service, env_type, version) ==
    IF is_app_service THEN raw \o <<":">> \o VersionToString(version) ELSE raw

\* resolver.rs:123-129
TagImage(raw, is_app_service, env_type, version) ==
    IF is_app_service
    THEN (IF env_type.kind = "Local"
          THEN raw \o <<":">> \o LATEST
          ELSE raw \o <<":">> \o VersionToString(version))
    ELSE raw

\* a variant without the check
RegistryNeverRequired(env) == FALSE

\* resolver.rs:131
RegistryRequiredButEmpty(env) ==
    env.env_type.kind # "Local" /\ MapIsEmpty(env.registry)

\* a variant that keeps a trailing slash
KeepSlash(s) == s

\* resolver.rs:302: registry_host.strip_suffix('/').unwrap_or(registry_host)
StripSlash(s) ==
    IF s # <<>> /\ s[Len(s)] = "/" THEN SubSeq(s, 1, Len(s) - 1) ELSE s

IsPrefixOf(a, b) == Len(a) <= Len(b) /\ SubSeq(b, 1, Len(a)) = a

\* a variant that searches the registry by prefix
RegistryGetByPrefix(registry, namespace) ==
    LET hits == {k \in DOMAIN registry :
                    IsPrefixOf(k, namespace) \/ IsPrefixOf(namespace, k)}
    IN IF hits = {} THEN None ELSE Some(registry[CHOOSE k \in hits : TRUE])

\* resolver.rs:290: env_spec.registry.get(namespace)
RegistryGet(registry, namespace) == MapGet(registry, namespace)

\* resolver.rs:288-305
resolve_app_service_image(env, raw) ==
    LET slash == StrFind(raw, <<"/">>)
    IN IF slash # None
       THEN LET namespace == Slice(raw, 0, slash[1])
                registry_host == RegistryGet(env.registry, namespace)
            IN IF registry_host # None
               THEN Ok(StripSlash(registry_host[1]) \o <<"/">> \o raw)
               ELSE IF env.env_type.kind = "Local"
               THEN Ok(raw)
               ELSE Err("Docker registry host for namespace not found in environment spec",
                        namespace)
       ELSE Ok(raw)

\* a variant that sends every service's image through the registry rule
RegistryForEveryService(env, is_app_service, raw) == resolve_app_service_image(env, raw)

\* resolver.rs:135-139
ServiceImage(env, is_app_service, raw) ==
    IF is_app_service THEN resolve_app_service_image(env, raw) ELSE Ok(raw)

----------------------------------------------------------------------------
(* resolve_app_env_vars, resolver.rs:343-399 *)

HTTPS == <<"h", "t", "t", "p", "s", ":", "/", "/">>

\* a variant in which the default wins over the deployment's value
DefaultFirst(external, deployment_values) ==
    IF external.default # None THEN external.default
    ELSE LET e == FindVar(deployment_values, external.name)
         IN IF e # None THEN Some(e[1].value) ELSE None

\* a variant that ignores the default
SuppliedOnly(external, deployment_values) ==
    LET e == FindVar(deployment_values, external.name)
    IN IF e # None THEN Some(e[1].value) ELSE None

\* resolver.rs:352-355
ExternalValue(external, deployment_values) ==
    LET e == FindVar(deployment_values, external.name)
    IN IF e # None THEN Some(e[1].value) ELSE external.default

\* resolver.rs:366-368
OptionalValue(optional, deployment_values) ==
    LET e == FindVar(deployment_values, optional.name)
    IN IF e # None THEN Some(e[1].value) ELSE None

\* resolver.rs:378-380
RelativeValue(relative, h, acc) ==
    WithContext(resolve_variable_in_string(HTTPS \o h \o relative.relative_value, acc),
                "Failed to resolve relative env variable", relative.name)

\* a variant that leaves the value uninterpolated
InternalValueUnresolved(internal, acc) == Ok(internal.value)

\* resolver.rs:390-391
InternalValue(internal, acc) ==
    WithContext(resolve_variable_in_string(internal.value, acc),
                "Failed to resolve internal env variable", internal.name)

\* the four for loops in sequence: the entry the run is at after entry i-1 of
\* tier t, or "vars_resolved" past the last entry of the last tier
TierAfter(t) ==
    CASE t = "external" -> "optional"
      [] t = "optional" -> "relative"
      [] t = "relative" -> "internal"
      [] t = "internal" -> "vars_resolved"

RECURSIVE Position(_, _, _)
Position(environment, t, i) ==
    IF t = "vars_resolved" THEN <<t, 0>>
    ELSE IF i <= Len(environment[t]) THEN <<t, i>>
    ELSE Position(environment, TierAfter(t), 1)

\* resolve_app_env_vars as one call: the four loops from position p on
RECURSIVE ResolveFrom(_, _, _, _, _)
ResolveFrom(app, deployment_values, h, p, acc) ==
    IF p[1] = "vars_resolved" THEN Ok(acc)
    ELSE LET t == p[1]
             entry == app.environment[t][p[2]]
             next == Position(app.environment, t, p[2] + 1)
             bound(v) == add_unique_var(acc, [name |-> entry.name, value |-> v])
             Continue(a) ==
                 The({ResolveFrom(app, deployment_values, h, next, b) : b \in {a}})
         IN CASE t = "external" ->
                   LET val == ExternalValue(entry, deployment_values)
                   IN IF val # None
                      THEN Continue(bound(val[1]))
                      ELSE Err("Missing external env variable", entry.name)
              [] t = "optional" ->
                   LET val == OptionalValue(entry, deployment_values)
                   IN Continue(IF val # None THEN bound(val[1]) ELSE acc)
              [] t = "relative" ->
                   LET value == RelativeValue(entry, h, acc)
                   IN IF value.ok THEN Continue(bound(value.val)) ELSE value
              [] t = "internal" ->
                   LET value == InternalValue(entry, acc)
                   IN IF value.ok THEN Continue(bound(value.val)) ELSE value

\* resolver.rs:343-399
resolve_app_env_vars(app, deployment_values, h) ==
    ResolveFrom(app, deployment_values, h, Position(app.environment, "external", 1), <<>>)

----------------------------------------------------------------------------
(* filter_service_env_vars, resolver.rs:401-431 *)

\* ServiceEnvOption
All == [kind |-> "All", name |-> <<>>, value |-> <<>>]
Simple(name) == [kind |-> "Simple", name |-> name, value |-> <<>>]
WithValue(k, v) == [kind |-> "WithValue", name |-> k, value |-> v]

\* a variant that appends every variable and replaces none
AppendAll(final_service_env_vars, all_env_vars, i) ==
    final_service_env_vars \o all_env_vars

\* for env_var in all_env_vars { add_unique_var(.., env_var.clone()) }
RECURSIVE AddAll(_, _, _)
AddAll(final_service_env_vars, all_env_vars, i) ==
    IF i > Len(all_env_vars) THEN final_service_env_vars
    ELSE The({AddAll(added, all_env_vars, i + 1) :
                 added \in {add_unique_var(final_service_env_vars, all_env_vars[i])}})

\* a variant that interpolates against the variables selected so far
SelectedSoFar(all_env_vars, final_service_env_vars) == final_service_env_vars

\* resolver.rs:424: the variables a name=value selector is interpolated against
InterpolationScope(all_env_vars, final_service_env_vars) == all_env_vars

\* the for loop over app_service.environment from selector i on
RECURSIVE FilterFrom(_, _, _, _)
FilterFrom(svc, all_env_vars, i, final_service_env_vars) ==
    IF i > Len(svc.environment) THEN Ok(final_service_env_vars)
    ELSE LET svc_env_opt == svc.environment[i]
             Continue(a) == The({FilterFrom(svc, all_env_vars, i + 1, b) : b \in {a}})
         IN CASE svc_env_opt.kind = "All" ->
                   Continue(AddAll(final_service_env_vars, all_env_vars, 1))
              [] svc_env_opt.kind = "Simple" ->
                   LET env_var == FindVar(all_env_vars, svc_env_opt.name)
                   IN IF env_var # None
                      THEN Continue(add_unique_var(final_service_env_vars, env_var[1]))
                      ELSE Err("Service references undefined env var",
                               <<svc.name, svc_env_opt.name>>)
              [] svc_env_opt.kind = "WithValue" ->
                   LET value == WithContext(
                           resolve_variable_in_string(
                               svc_env_opt.value,
                               InterpolationScope(all_env_vars, final_service_env_vars)),
                           "Failed to resolve env var",
                           <<svc.name, svc_env_opt.name, svc_env_opt.value>>)
                   IN IF value.ok
                      THEN Continue(add_unique_var(final_service_env_vars,
                                                   [name |-> svc_env_opt.name,
                                                    value |-> value.val]))
                      ELSE value

filter_service_env_vars(svc, all_env_vars) ==
    The({FilterFrom(svc, all, 1, <<>>) : all \in {all_env_vars}})

----------------------------------------------------------------------------
(* resolve(): configs and secrets of the deployment, resolver.rs:19-70.     *)
(* A path is the sequence of its components; os.files maps a path to a     *)
(* file [kind, readable, content] or a directory [kind, entries];          *)
(* os.env maps the name of a process environment variable to its value.    *)

\* format!("{}-{}", app_spec.name, name)
Namespaced(app, name) == app.name \o "-" \o name

\* Path::file_name
FileName(path) == path[Len(path)]

\* resolver.rs:29-37: the files of a directory, in read_dir order
RECURSIVE DirFiles(_, _, _)
DirFiles(path, entries, i) ==
    IF i > Len(entries) THEN Ok(<<>>)
    ELSE LET entry == entries[i]
             rest == DirFiles(path, entries, i + 1)
         IN IF ~entry.is_file THEN rest
            ELSE IF ~entry.readable
            THEN WithContext(Err("read", <<>>), "Failed to read config file",
                             Append(path, entry.name))
            ELSE IF rest.ok
            THEN Ok(<<[name |-> entry.name, content |-> entry.content]>> \o rest.val)
            ELSE rest

\* resolver.rs:23-43
RECURSIVE ConfigFiles(_, _, _)
ConfigFiles(files, o, i) ==
    IF i > Len(files) THEN Ok(<<>>)
    ELSE LET file_path == files[i]
             found == MapGet(o.files, file_path)
             here == IF found = None THEN Err("Config file not found", file_path)
                     ELSE IF found[1].kind = "dir"
                     THEN DirFiles(file_path, found[1].entries, 1)
                     ELSE IF ~found[1].readable
                     THEN WithContext(Err("read", <<>>), "Failed to read config file",
                                      file_path)
                     ELSE Ok(<<[name |-> FileName(file_path),
                                content |-> found[1].content]>>)
         IN IF ~here.ok THEN here
            ELSE LET rest == ConfigFiles(files, o, i + 1)
                 IN IF rest.ok THEN Ok(here.val \o rest.val) ELSE rest

\* fs::read_dir returns the entries of a directory in an order the platform
\* and the file system choose: every order of the entries is a listing
Orderings(entries) ==
    {[k \in 1..Len(entries) |-> entries[order[k]]] :
        order \in {f \in [1..Len(entries) -> 1..Len(entries)] :
                      \A i, j \in 1..Len(entries) : f[i] = f[j] => i = j}}
ListingsOf(file) ==
    IF file.kind = "dir"
    THEN {[kind |-> "dir", entries |-> e] : e \in Orderings(file.entries)}
    ELSE {file}
\* the file system as one run can find it listed
Listings(o) ==
    {[files |-> f, env |-> o.env] :
        f \in {g \in [DOMAIN o.files -> UNION {ListingsOf(o.files[q]) : q \in DOMAIN o.files}] :
                  \A q \in DOMAIN o.files : g[q] \in ListingsOf(o.files[q])}}

\* resolver.rs:20-48
RECURSIVE ResolveConfigsFrom(_, _, _, _)
ResolveConfigsFrom(app, configs, o, i) ==
    IF i > Len(configs) THEN Ok(<<>>)
    ELSE LET config_spec == configs[i]
             resolved_files == ConfigFiles(config_spec.files, o, 1)
         IN IF ~resolved_files.ok THEN resolved_files
            ELSE LET rest == ResolveConfigsFrom(app, configs, o, i + 1)
                 IN IF rest.ok
                    THEN Ok(<<[name |-> Namespaced(app, config_spec.name),
                               files |-> resolved_files.val]>> \o rest.val)
                    ELSE rest

\* DeploymentSecretSource
EnvVariableSource(var_name) == [kind |-> "EnvVariable", arg |-> var_name]
FilePathSource(path) == [kind |-> "FilePath", arg |-> path]
Embedded(value) == [kind |-> "Embedded", arg |-> value]

\* resolver.rs:53-65
SecretValue(source, o) ==
    CASE source.kind = "EnvVariable" ->
            LET v == MapGet(o.env, source.arg)
            IN IF v # None THEN Ok(v[1])
               ELSE WithContext(Err("environment variable not found", <<>>),
                                "Secret environment variable not set", source.arg)
      [] source.kind = "FilePath" ->
            LET found == MapGet(o.files, source.arg)
            IN IF found = None THEN Err("Secret file not found", source.arg)
               ELSE IF found[1].kind = "dir" \/ ~found[1].readable
               THEN WithContext(Err("read", <<>>), "Failed to read secret file", source.arg)
               ELSE Ok(found[1].content)
      [] source.kind = "Embedded" -> Ok(source.arg)

\* resolver.rs:51-70
RECURSIVE ResolveSecretsFrom(_, _, _, _)
ResolveSecretsFrom(app, secrets, o, i) ==
    IF i > Len(secrets) THEN Ok(<<>>)
    ELSE LET secret_spec == secrets[i]
             value == SecretValue(secret_spec.source, o)
         IN IF ~value.ok THEN value
            ELSE LET rest == ResolveSecretsFrom(app, secrets, o, i + 1)
                 IN IF rest.ok
                    THEN Ok(<<[name |-> Namespaced(app, secret_spec.secret_name),
                               value |-> value.val]>> \o rest.val)
                    ELSE rest

----------------------------------------------------------------------------
(* resolve(): one iteration of the service loop, resolver.rs:78-203 *)

\* resolver.rs:83-93
Prefixes(ds_opt) == IF ds_opt # None THEN ds_opt[1].prefixes ELSE <<>>

\* resolver.rs:144
CombinationKey(host_name, prefix) == <<host_name, prefix.prefix>>

\* a variant of the message without the service
DuplicateUnnamed(svc, host_name, prefix) ==
    Err("Duplicate host+prefix combination for public service",
        <<host_name, prefix.prefix>>)

\* resolver.rs:146-147
DuplicateCombination(svc, host_name, prefix) ==
    Err("Duplicate host+prefix combination for public service",
        <<svc.name, host_name, prefix.prefix>>)

\* resolver.rs:143-149: insert every prefix of the service, in order
RECURSIVE ClaimPrefixes(_, _, _, _, _)
ClaimPrefixes(svc, host_name, prefixes, i, combinations) ==
    IF i > Len(prefixes) THEN Ok(combinations)
    ELSE LET key == CombinationKey(host_name, prefixes[i])
         IN IF key \in combinations
            THEN DuplicateCombination(svc, host_name, prefixes[i])
            ELSE ClaimPrefixes(svc, host_name, prefixes, i + 1, combinations \cup {key})

\* a variant whose set of combinations starts empty for every service
UniqueWithinService(svc, host_name, prefixes, combinations) ==
    IF svc.service_type = "Public"
    THEN LET r == ClaimPrefixes(svc, host_name, prefixes, 1, {})
         IN IF r.ok THEN Ok(combinations \cup r.val) ELSE r
    ELSE Ok(combinations)

\* resolver.rs:142-150
CheckUniqueness(svc, host_name, prefixes, combinations) ==
    IF svc.service_type = "Public"
    THEN ClaimPrefixes(svc, host_name, prefixes, 1, combinations)
    ELSE Ok(combinations)

\* a variant that accepts every reference
AnyName(resolved, name) == TRUE

\* resolver.rs:168 and 181: resolved.iter().any(|c| c.name == name)
IsResolved(resolved, name) == \E k \in 1..Len(resolved) : resolved[k].name = name

\* resolver.rs:165-175
RECURSIVE ServiceConfigs(_, _, _, _)
ServiceConfigs(app, svc, configs, i) ==
    IF i > Len(svc.configs) THEN Ok(<<>>)
    ELSE LET config_name == Namespaced(app, svc.configs[i].config_name)
         IN IF ~IsResolved(configs, config_name)
            THEN Err("Service references undefined config", <<svc.name, config_name>>)
            ELSE LET rest == ServiceConfigs(app, svc, configs, i + 1)
                 IN IF rest.ok
                    THEN Ok(<<[config_name |-> config_name,
                               mount_path |-> svc.configs[i].mount_path]>> \o rest.val)
                    ELSE rest

\* resolver.rs:178-188
RECURSIVE ServiceSecrets(_, _, _, _)
ServiceSecrets(app, svc, secrets, i) ==
    IF i > Len(svc.secrets) THEN Ok(<<>>)
    ELSE LET secret_name == Namespaced(app, svc.secrets[i].name)
         IN IF ~IsResolved(secrets, secret_name)
            THEN Err("Service references undefined secret", <<svc.name, secret_name>>)
            ELSE LET rest == ServiceSecrets(app, svc, secrets, i + 1)
                 IN IF rest.ok
                    THEN Ok(<<[name |-> secret_name,
                               mount |-> svc.secrets[i].mount]>> \o rest.val)
                    ELSE rest

\* resolver.rs:199-201
ServicePorts(ds_opt, svc) == IF ds_opt # None THEN ds_opt[1].ports ELSE svc.ports

\* resolver.rs:153-162: the variables of the service under deployment_values
ServiceEnv(app, svc, deployment_values, h) ==
    The({IF all.ok THEN filter_service_env_vars(svc, all.val) ELSE all :
            all \in {resolve_app_env_vars(app, deployment_values, h)}})

\* resolver.rs:78-203: Ok([service, combinations]) or the error of the iteration
ResolveService(env, app, dep, svc, combinations, configs, secrets) ==
    LET ds_opt == DeploymentServiceOpt(dep, svc)
        variant_name == VariantName(ds_opt)
        host_name == HostName(dep, ds_opt)
        domain == FirstDomain(env, host_name)
        selected == SelectVariant(svc, variant_name)
    IN IF domain = None THEN Err("Host not found in ingress spec", host_name)
       ELSE IF selected = None
       THEN Err("Image variant not found for service", <<variant_name, svc.name>>)
       ELSE IF RegistryRequiredButEmpty(env)
       THEN Err("Registry mapping is required for non-local deployments", <<>>)
       ELSE
       LET tagged == TagImage(selected[1], svc.is_app_service, env.env_type, app.version)
           resolved_image == ServiceImage(env, svc.is_app_service, tagged)
           claimed == CheckUniqueness(svc, host_name, Prefixes(ds_opt), combinations)
           final_service_env_vars == ServiceEnv(app, svc, dep.environment, domain[1])
           undockerized_values ==
               AddAll(dep.environment, dep.undockerized_environment, 1)
           final_undockerized_service_env_vars ==
               ServiceEnv(app, svc, undockerized_values, domain[1])
           service_configs == ServiceConfigs(app, svc, configs, 1)
           service_secrets == ServiceSecrets(app, svc, secrets, 1)
       IN IF ~resolved_image.ok THEN resolved_image
          ELSE IF ~claimed.ok THEN claimed
          ELSE IF ~final_service_env_vars.ok THEN final_service_env_vars
          ELSE IF ~final_undockerized_service_env_vars.ok
          THEN final_undockerized_service_env_vars
          ELSE IF ~service_configs.ok THEN service_configs
          ELSE IF ~service_secrets.ok THEN service_secrets
          ELSE Ok([service |->
                      [full_name |-> Namespaced(app, svc.name),
                       service_type |-> svc.service_type,
                       image |-> resolved_image.val,
                       service_host |-> domain[1],
                       environment_variables |-> final_service_env_vars.val,
                       undockerized_environment_variables |->
                           final_undockerized_service_env_vars.val,
                       configs |-> service_configs.val,
                       secrets |-> service_secrets.val,
                       ports |-> ServicePorts(ds_opt, svc)],
                   combinations |-> claimed.val])

----------------------------------------------------------------------------
(* resolve(): the ingress rules and the result, resolver.rs:205-285 *)

\* spec.rs:14-17
all_services(app) == app.app_services \o app.extra_services

\* a variant that always routes to the first port
FirstPort(ds) == IF ds.ports # <<>> THEN ds.ports[1].external ELSE 80

\* resolver.rs:227-233
IngressPort(ds) ==
    IF \E k \in 1..Len(ds.ports) : ds.ports[k].external = 80 THEN 80
    ELSE IF ds.ports # <<>> THEN ds.ports[1].external
    ELSE 80

\* a variant that routes to services of every type
RoutesAnyType(svc) == TRUE

\* resolver.rs:222
IsPublic(svc) == svc.service_type = "Public"

\* resolver.rs:220-245: the rules of one service under the host
RulesOfService(app, dep, svc, host_spec) ==
    LET ds_opt == DeploymentServiceOpt(dep, svc)
    IN IF ds_opt = None THEN <<>>
       ELSE IF ~IsPublic(svc) THEN <<>>
       ELSE LET ds == ds_opt[1]
                h == IF ds.host # None THEN ds.host[1] ELSE dep.primary_host
            IN IF h # host_spec.name THEN <<>>
               ELSE [k \in 1..Len(ds.prefixes) |->
                        [service_name |-> Namespaced(app, svc.name),
                         port |-> IngressPort(ds),
                         prefix |-> ds.prefixes[k].prefix,
                         strip_prefix |-> ds.prefixes[k].strip]]

\* resolver.rs:219-246
RECURSIVE ServiceRules(_, _, _, _, _)
ServiceRules(app, dep, services, host_spec, i) ==
    IF i > Len(services) THEN <<>>
    ELSE RulesOfService(app, dep, services[i], host_spec)
         \o ServiceRules(app, dep, services, host_spec, i + 1)

\* resolver.rs:216-254
RECURSIVE DomainRules(_, _, _, _)
DomainRules(app, dep, host_spec, j) ==
    IF j > Len(host_spec.domain_names) THEN <<>>
    ELSE LET service_rules == ServiceRules(app, dep, all_services(app), host_spec, 1)
             rest == DomainRules(app, dep, host_spec, j + 1)
         IN IF service_rules # <<>>
            THEN <<[domain_name |-> host_spec.domain_names[j],
                    services |-> service_rules]>> \o rest
            ELSE rest

\* resolver.rs:214-255
RECURSIVE IngressRules(_, _, _, _)
IngressRules(env, app, dep, i) ==
    IF i > Len(env.ingress.hosts) THEN <<>>
    ELSE DomainRules(app, dep, env.ingress.hosts[i], 1)
         \o IngressRules(env, app, dep, i + 1)

ACME == "https://acme-v02.api.letsencrypt.org/directory"

\* resolver.rs:257-272
TlsResolved(tls) ==
    IF tls = None THEN None
    ELSE Some([secret |-> tls[1].secret,
               letsencrypt |->
                   IF tls[1].letsencrypt = None THEN None
                   ELSE LET le == tls[1].letsencrypt[1]
                        IN Some([server |-> IF le.server # None THEN le.server[1] ELSE ACME,
                                 email |-> le.email])])

\* resolver.rs:276: hosts.iter().flat_map(|h| h.domain_names.clone())
RECURSIVE AllDomains(_, _)
AllDomains(hosts, i) ==
    IF i > Len(hosts) THEN <<>> ELSE hosts[i].domain_names \o AllDomains(hosts, i + 1)

----------------------------------------------------------------------------
(* validate, validator.rs:5-95.  A version requirement is the set of the   *)
(* versions it matches.  The result is a set: the services of a deployment *)
(* are a HashMap, iterated in no fixed order.                              *)

\* a variant that asks the deployment for every external variable
UnsuppliedEnvVars(app, dep) ==
    LET missing(env_var) == FindVar(dep.environment, env_var.name) = None
        entries == SelectSeq(app.environment.external, missing)
    IN [k \in 1..Len(entries) |-> entries[k].name]

\* validator.rs:25-31
MissingEnvVars(app, dep) ==
    LET missing(env_var) == /\ FindVar(dep.environment, env_var.name) = None
                            /\ env_var.default = None
        entries == SelectSeq(app.environment.external, missing)
    IN [k \in 1..Len(entries) |-> entries[k].name]

\* validator.rs:39-45 and 49-55: the first name of wanted that provided lacks
FirstNotProvided(wanted, provided) ==
    LET lacking == {k \in 1..Len(wanted) : wanted[k] \notin provided}
    IN IF lacking = {} THEN None ELSE Some(wanted[MinOf(lacking)])

\* a variant that counts the optional tier among the declared names
DeclaredInAnyTier(app) ==
    UNION {{app.environment[t][k].name : k \in 1..Len(app.environment[t])} :
              t \in {"external", "optional", "relative", "internal"}}

\* validator.rs:73-82
app_defined_env_vars(app) ==
    {app.environment.external[k].name : k \in 1..Len(app.environment.external)}
    \cup {app.environment.relative[k].name : k \in 1..Len(app.environment.relative)}
    \cup {app.environment.internal[k].name : k \in 1..Len(app.environment.internal)}

\* validator.rs:84-92: the first Simple selector that names no declared variable
UndefinedSelector(app) ==
    LET services == all_services(app)
        defined == app_defined_env_vars(app)
        selectors == UNION {{<<i, j>> : j \in 1..Len(services[i].environment)} :
                               i \in 1..Len(services)}
        bad == {p \in selectors :
                   /\ services[p[1]].environment[p[2]].kind = "Simple"
                   /\ services[p[1]].environment[p[2]].name \notin defined}
        first == CHOOSE p \in bad :
                    \A q \in bad : p[1] < q[1] \/ (p[1] = q[1] /\ p[2] <= q[2])
    IN IF bad = {} THEN None
       ELSE Some(<<services[first[1]].name, services[first[1]].environment[first[2]].name>>)

validate(env, app, env_name) ==
    LET found == FindDeploymentByName(env, env_name)
    IN IF found = None THEN {Err("Deployment not found in envspec", env_name)}
       ELSE
       LET dep == found[1]
           missing_env_vars == MissingEnvVars(app, dep)
           secret == FirstNotProvided(
                        [k \in 1..Len(app.secrets) |-> app.secrets[k].secret_name],
                        {dep.secrets[k].secret_name : k \in 1..Len(dep.secrets)})
           config == FirstNotProvided(
                        [k \in 1..Len(app.configs) |-> app.configs[k].name],
                        {dep.configs[k].name : k \in 1..Len(dep.configs)})
           available_services ==
               {all_services(app)[k].name : k \in 1..Len(all_services(app))}
           unknown == IF dep.services = None THEN {}
                      ELSE DOMAIN dep.services[1] \ available_services
           selector == UndefinedSelector(app)
       IN IF dep.application.name # app.name
          THEN {Err("Deployment expects application, but appspec is for another",
                    <<env_name, dep.application.name, app.name>>)}
          ELSE IF /\ dep.application.version # None
                  /\ app.version \notin dep.application.version[1]
          THEN {Err("App version does not satisfy deployment requirement", app.version)}
          ELSE IF missing_env_vars # <<>>
          THEN {Err("Environment variables required by application are not provided by deployment",
                    <<missing_env_vars, env_name>>)}
          ELSE IF secret # None
          THEN {Err("Secret required by application is not provided by deployment",
                    <<secret[1], env_name>>)}
          ELSE IF config # None
          THEN {Err("Config required by application is not provided by deployment",
                    <<config[1], env_name>>)}
          ELSE IF unknown # {}
          THEN {Err("Deployment configures service which is not defined in application",
                    svc_name) : svc_name \in unknown}
          ELSE IF selector # None
          THEN {Err("Service references undefined environment variable", selector[1])}
          ELSE {Ok(<<>>)}

----------------------------------------------------------------------------
(* parse_env_string, env_loader.rs:14-55 *)

SPACE == " "
EQUALS == "="
DOUBLE_QUOTE == "\""
SINGLE_QUOTE == "'"

\* str::trim_start and str::trim_end
RECURSIVE TrimStart(_)
TrimStart(s) ==
    IF s # <<>> /\ s[1] = SPACE THEN TrimStart(Tail(s)) ELSE s
RECURSIVE TrimEnd(_)
TrimEnd(s) ==
    IF s # <<>> /\ s[Len(s)] = SPACE THEN TrimEnd(SubSeq(s, 1, Len(s) - 1)) ELSE s
\* str::trim
Trim(s) == TrimEnd(TrimStart(s))

\* a variant that splits at the last occurrence
SplitAtLast(s, ch) ==
    LET at == {k \in 1..Len(s) : s[k] = ch}
        last == CHOOSE k \in at : \A j \in at : j <= k
    IN IF at = {} THEN None
       ELSE Some(<<SubSeq(s, 1, last - 1), SubSeq(s, last + 1, Len(s))>>)

\* str::split_once: the parts before and after the first occurrence
SplitOnce(s, ch) ==
    LET at == {k \in 1..Len(s) : s[k] = ch}
    IN IF at = {} THEN None
       ELSE Some(<<SubSeq(s, 1, MinOf(at) - 1), SubSeq(s, MinOf(at) + 1, Len(s))>>)

StartsWith(s, ch) == s # <<>> /\ s[1] = ch
EndsWith(s, ch) == s # <<>> /\ s[Len(s)] = ch

EnvDescriptor(name, default) == [name |-> name, default |-> default]

\* env_loader.rs:14-55
parse_env_string(raw) ==
    LET trimmed == Trim(raw)
        parts == SplitOnce(trimmed, EQUALS)
    IN IF trimmed = <<>> THEN Err("Empty string", <<>>)
       ELSE IF parts = None THEN Ok(EnvDescriptor(trimmed, None))
       ELSE LET name == Trim(parts[1][1])
                value == Trim(parts[1][2])
            IN IF name = <<>> THEN Err("Empty name", <<>>)
               ELSE IF \/ StartsWith(value, DOUBLE_QUOTE) /\ EndsWith(value, DOUBLE_QUOTE)
                       \/ StartsWith(value, SINGLE_QUOTE) /\ EndsWith(value, SINGLE_QUOTE)
               THEN IF Len(value) >= 2
                    THEN Ok(EnvDescriptor(name, Some(SubSeq(value, 2, Len(value) - 1))))
                    ELSE Err("Invalid quoted value", <<>>)
               ELSE IF \E k \in 1..Len(value) : value[k] = EQUALS
               THEN Err("Unquoted '=' found in value. Use quotes.", <<>>)
               ELSE Ok(EnvDescriptor(name, Some(value)))

----------------------------------------------------------------------------
(* The run: convert_env_spec, then resolve() up to the variable set of one *)
(* service                                                                 *)

givenVars == <<input, vars, env_yaml, app_spec, deployment_name, app_service, os>>
\* what the service loop of resolve() builds
resolveVars == <<resolved_configs, resolved_secrets, resolved_services,
                 public_host_prefix_combinations, service_index, ingress_rules>>

\* spec_loader.rs:72 / main.rs:188
ConvertEnvSpec ==
    /\ pc = "convert_env_spec"
    /\ \E r \in convert_env_spec(env_yaml) :
          IF r.ok
          THEN env_spec' = r.val /\ pc' = "find_deployment" /\ UNCHANGED result
          ELSE pc' = "rejected" /\ result' = r /\ UNCHANGED env_spec
    /\ UNCHANGED <<givenVars, resolveVars, deployment, host_domain_name, raw_image, image,
                   environment_variables, idx>>

\* resolver.rs:15-17
FindDeployment ==
    /\ pc = "find_deployment"
    /\ LET d == FindDeploymentByName(env_spec, deployment_name)
       IN IF d # None
          THEN deployment' = d[1] /\ pc' = "host" /\ UNCHANGED result
          ELSE /\ pc' = "failed"
               /\ result' = Err("Deployment not found", <<>>)
               /\ UNCHANGED deployment
    /\ UNCHANGED <<givenVars, resolveVars, env_spec, host_domain_name, raw_image, image,
                   environment_variables, idx>>

\* resolver.rs:76-113
ResolveHost ==
    /\ pc = "host"
    /\ LET ds_opt == DeploymentServiceOpt(deployment, app_service)
           host_name == HostName(deployment, ds_opt)
           domain == FirstDomain(env_spec, host_name)
       IN IF domain # None
          THEN host_domain_name' = domain[1] /\ pc' = "select_image"
               /\ UNCHANGED result
          ELSE /\ pc' = "failed"
               /\ result' = Err("Host not found in ingress spec", <<>>)
               /\ UNCHANGED host_domain_name
    /\ UNCHANGED <<givenVars, resolveVars, env_spec, deployment, raw_image, image,
                   environment_variables, idx>>

\* resolver.rs:115-129
SelectImage ==
    /\ pc = "select_image"
    /\ LET ds_opt == DeploymentServiceOpt(deployment, app_service)
           selected == SelectVariant(app_service, VariantName(ds_opt))
       IN IF selected # None
          THEN /\ raw_image' = TagImage(selected[1], app_service.is_app_service,
                                        env_spec.env_type, app_spec.version)
               /\ pc' = "resolve_image"
               /\ UNCHANGED result
          ELSE /\ pc' = "failed"
               /\ result' = Err("Image variant not found for service", <<>>)
               /\ UNCHANGED raw_image
    /\ UNCHANGED <<givenVars, resolveVars, env_spec, deployment, host_domain_name, image,
                   environment_variables, idx>>

\* the run enters the tier loops, or returns the variable set
MoveTo(p, acc) ==
    /\ pc' = p[1]
    /\ idx' = p[2]
    /\ environment_variables' = acc
    /\ result' = IF p[1] = "vars_resolved" THEN Ok(acc) ELSE result

\* resolver.rs:131-139, then resolver.rs:153 and 348
ResolveImage ==
    /\ pc = "resolve_image"
    /\ IF RegistryRequiredButEmpty(env_spec)
       THEN /\ pc' = "failed"
            /\ result' = Err("Registry mapping is required for non-local deployments", <<>>)
            /\ UNCHANGED <<image, environment_variables, idx>>
       ELSE LET r == ServiceImage(env_spec, app_service.is_app_service, raw_image)
            IN IF r.ok
               THEN /\ image' = r.val
                    /\ MoveTo(Position(app_spec.environment, "external", 1), <<>>)
               ELSE /\ pc' = "failed"
                    /\ result' = r
                    /\ UNCHANGED <<image, environment_variables, idx>>
    /\ UNCHANGED <<givenVars, resolveVars, env_spec, deployment, host_domain_name, raw_image>>

\* resolver.rs:351-362
ExternalEntry ==
    /\ pc = "external"
    /\ LET external == app_spec.environment.external[idx]
           val == ExternalValue(external, deployment.environment)
       IN IF val # None
          THEN MoveTo(Position(app_spec.environment, "external", idx + 1),
                      add_unique_var(environment_variables,
                                     [name |-> external.name, value |-> val[1]]))
          ELSE /\ pc' = "failed"
               /\ result' = Err("Missing external env variable", external.name)
               /\ UNCHANGED <<environment_variables, idx>>
    /\ UNCHANGED <<givenVars, resolveVars, env_spec, deployment, host_domain_name, raw_image, image>>

\* resolver.rs:365-373
OptionalEntry ==
    /\ pc = "optional"
    /\ LET optional == app_spec.environment.optional[idx]
           val == OptionalValue(optional, deployment.environment)
       IN MoveTo(Position(app_spec.environment, "optional", idx + 1),
                 IF val # None
                 THEN add_unique_var(environment_variables,
                                     [name |-> optional.name, value |-> val[1]])
                 ELSE environment_variables)
    /\ UNCHANGED <<givenVars, resolveVars, env_spec, deployment, host_domain_name, raw_image, image>>

\* resolver.rs:376-386
RelativeEntry ==
    /\ pc = "relative"
    /\ LET relative == app_spec.environment.relative[idx]
           value == RelativeValue(relative, host_domain_name, environment_variables)
       IN IF value.ok
          THEN MoveTo(Position(app_spec.environment, "relative", idx + 1),
                      add_unique_var(environment_variables,
                                     [name |-> relative.name, value |-> value.val]))
          ELSE /\ pc' = "failed"
               /\ result' = value
               /\ UNCHANGED <<environment_variables, idx>>
    /\ UNCHANGED <<givenVars, resolveVars, env_spec, deployment, host_domain_name, raw_image, image>>

\* resolver.rs:389-396
InternalEntry ==
    /\ pc = "internal"
    /\ LET internal == app_spec.environment.internal[idx]
           value == InternalValue(internal, environment_variables)
       IN IF value.ok
          THEN MoveTo(Position(app_spec.environment, "internal", idx + 1),
                      add_unique_var(environment_variables,
                                     [name |-> internal.name, value |-> value.val]))
          ELSE /\ pc' = "failed"
               /\ result' = value
               /\ UNCHANGED <<environment_variables, idx>>
    /\ UNCHANGED <<givenVars, resolveVars, env_spec, deployment, host_domain_name, raw_image, image>>

Next ==
    \/ ConvertEnvSpec
    \/ FindDeployment
    \/ ResolveHost
    \/ SelectImage
    \/ ResolveImage
    \/ ExternalEntry
    \/ OptionalEntry
    \/ RelativeEntry
    \/ InternalEntry

\* let r = resolve_variable_in_string(&input, &vars)
Interpolate ==
    /\ pc = "call"
    /\ result' = resolve_variable_in_string(input, vars)
    /\ pc' = "returned"
    /\ UNCHANGED <<givenVars, resolveVars, env_spec, deployment, host_domain_name, raw_image,
                   image, environment_variables, idx>>

NextInterp == Interpolate

\* resolver.rs:153-154: the variables of the deployment, then those of the service
ResolveServiceEnv ==
    /\ pc = "service_env"
    /\ LET all == resolve_app_env_vars(app_spec, deployment.environment, host_domain_name)
       IN IF all.ok
          THEN LET final_service_env_vars == filter_service_env_vars(app_service, all.val)
               IN /\ environment_variables' = all.val
                  /\ result' = final_service_env_vars
                  /\ pc' = IF final_service_env_vars.ok THEN "service_env_filtered"
                           ELSE "failed"
          ELSE /\ pc' = "failed"
               /\ result' = all
               /\ UNCHANGED environment_variables
    /\ UNCHANGED <<givenVars, resolveVars, env_spec, deployment, host_domain_name,
                   raw_image, image, idx>>

NextFilter == ResolveServiceEnv

----------------------------------------------------------------------------
(* The run of a deployment command: validate, then resolve() whole,        *)
(* main.rs:208-216                                                         *)

mainGiven == <<givenVars, env_spec, host_domain_name, raw_image, image,
               environment_variables, idx>>

\* main.rs:209
Validate ==
    /\ pc = "validate"
    /\ \E r \in validate(env_spec, app_spec, deployment_name) :
          IF r.ok THEN pc' = "resolve" /\ UNCHANGED result
          ELSE pc' = "invalid" /\ result' = r
    /\ UNCHANGED <<mainGiven, resolveVars, deployment>>

\* resolver.rs:15-17
BeginResolve ==
    /\ pc = "resolve"
    /\ LET d == FindDeploymentByName(env_spec, deployment_name)
       IN IF d # None
          THEN deployment' = d[1] /\ pc' = "configs" /\ UNCHANGED result
          ELSE /\ pc' = "failed"
               /\ result' = Err("Deployment not found", <<>>)
               /\ UNCHANGED deployment
    /\ UNCHANGED <<mainGiven, resolveVars>>

\* resolver.rs:19-48
ResolveConfigs ==
    /\ pc = "configs"
    /\ \E listed \in Listings(os) :
          \E r \in {ResolveConfigsFrom(app_spec, deployment.configs, listed, 1)} :
             IF r.ok
             THEN resolved_configs' = r.val /\ pc' = "secrets" /\ UNCHANGED result
             ELSE pc' = "failed" /\ result' = r /\ UNCHANGED resolved_configs
    /\ UNCHANGED <<mainGiven, deployment, resolved_secrets, resolved_services,
                   public_host_prefix_combinations, service_index, ingress_rules>>

\* resolver.rs:50-76
ResolveSecrets ==
    /\ pc = "secrets"
    /\ LET r == ResolveSecretsFrom(app_spec, deployment.secrets, os, 1)
       IN IF r.ok
          THEN /\ resolved_secrets' = r.val
               /\ service_index' = 1
               /\ pc' = IF all_services(app_spec) = <<>> THEN "ingress" ELSE "services"
               /\ UNCHANGED result
          ELSE /\ pc' = "failed"
               /\ result' = r
               /\ UNCHANGED <<resolved_secrets, service_index>>
    /\ UNCHANGED <<mainGiven, deployment, resolved_configs, resolved_services,
                   public_host_prefix_combinations, ingress_rules>>

\* resolver.rs:78-203: one iteration of the loop over all_services()
ResolveNextService ==
    /\ pc = "services"
    /\ LET services == all_services(app_spec)
       IN \E r \in {ResolveService(env_spec, app_spec, deployment, services[service_index],
                                   public_host_prefix_combinations,
                                   resolved_configs, resolved_secrets)} :
          IF r.ok
          THEN /\ resolved_services' = Append(resolved_services, r.val.service)
               /\ public_host_prefix_combinations' = r.val.combinations
               /\ service_index' = service_index + 1
               /\ pc' = IF service_index = Len(services) THEN "ingress" ELSE "services"
               /\ UNCHANGED result
          ELSE /\ pc' = "failed"
               /\ result' = r
               /\ UNCHANGED <<resolved_services, public_host_prefix_combinations,
                              service_index>>
    /\ UNCHANGED <<mainGiven, deployment, resolved_configs, resolved_secrets,
                   ingress_rules>>

\* resolver.rs:205-285
DeriveIngress ==
    /\ pc = "ingress"
    /\ LET rules == IngressRules(env_spec, app_spec, deployment, 1)
       IN /\ ingress_rules' = rules
          /\ result' = Ok([ingress |->
                              [name |-> env_spec.ingress.name,
                               domains |-> AllDomains(env_spec.ingress.hosts, 1),
                               rules |-> rules,
                               tls |-> TlsResolved(env_spec.ingress.tls)],
                           current_deployment |->
                              [name |-> deployment.name,
                               application_name |-> deployment.application.name,
                               configs |-> resolved_configs,
                               secrets |-> resolved_secrets,
                               defaults |-> deployment.defaults,
                               services |-> resolved_services],
                           env_type |-> env_spec.env_type])
    /\ pc' = "resolved"
    /\ UNCHANGED <<mainGiven, deployment, resolved_configs, resolved_secrets,
                   resolved_services, public_host_prefix_combinations, service_index>>

NextMain ==
    \/ Validate
    \/ BeginResolve
    \/ ResolveConfigs
    \/ ResolveSecrets
    \/ ResolveNextService
    \/ DeriveIngress

\* env_loader.rs:14-55: one call
ParseEnvString ==
    /\ pc = "parse"
    /\ result' = parse_env_string(input)
    /\ pc' = "parsed"
    /\ UNCHANGED <<givenVars, resolveVars, env_spec, deployment, host_domain_name, raw_image,
                   image, environment_variables, idx>>

NextParse == ParseEnvString

----------------------------------------------------------------------------
(* Inputs *)

Chars == {"$", "{", "}", "A", "B"}
Templates == UNION {[1..n -> Chars] : n \in 0..MaxTemplateLen}

NameA == <<"A">>
NameB == <<"B">>
NameC == <<"C">>
NameD == <<"D">>
RefA == <<"$", "{", "A", "}">>
RefB == <<"$", "{", "B", "}">>

VarNames == {NameA, NameB}
VarValues == {<<"v">>, RefB, <<"}">>}
EnvVariables == [name : VarNames, value : VarValues]

\* name-unique variable lists, as add_unique_var builds them
NameUnique(vs) == \A i, j \in 1..Len(vs) : vs[i].name = vs[j].name => i = j
VarLists ==
    {vs \in UNION {[1..n -> EnvVariables] : n \in 0..Cardinality(VarNames)} :
        NameUnique(vs)}

\* ingress hosts: one with two domains, one with one, one with none
DomainM == <<"m">>
DomainX == <<"x">>
DomainN == <<"n">>
Ingress == [hosts |-> <<[name |-> "main", domain_names |-> <<DomainM, DomainX>>],
                        [name |-> "alt", domain_names |-> <<DomainN>>],
                        [name |-> "bare", domain_names |-> <<>>]>>]

Override(variant, host, ports) ==
    [variant |-> variant, host |-> host, prefixes |-> <<>>, ports |-> ports]
WebPort == [external |-> 80, internal |-> 8080]
ServicesOf(o) == Some([n \in {"api"} |-> o])

DeploymentOf(name, values, services) ==
    [name |-> name, primary_host |-> "main", environment |-> values,
     services |-> services]

\* registry namespaces, one a prefix of the other, and hosts, one with a
\* trailing slash
NsW == <<"w">>
NsWe == <<"w", "e">>
RegistryKeys == {NsW, NsWe}
RegistryHosts == {<<"r">>, <<"q", "/">>}
RegistryMaps == UNION {[D -> RegistryHosts] : D \in SUBSET RegistryKeys}

ImageWA == <<"w", "/", "a">>
ImageWeA == <<"w", "e", "/", "a">>
ImageA == <<"a">>
ImageWAB == <<"w", "/", "a", "/", "b">>
Images == {ImageWA, ImageWeA, ImageA, ImageWAB}
Variant(n, i) == [variant_name |-> n, image |-> i]
Versions == {<<1, 2, 3>>, <<0, 10, 0>>}

AppOf(version, environment) ==
    [name |-> "app", version |-> version, environment |-> environment]
Tiers(e, o, r, i) == [external |-> e, optional |-> o, relative |-> r, internal |-> i]

\* one declaration per tier
SmallEnvironment ==
    Tiers(<<[name |-> NameA, default |-> Some(<<"d">>)]>>,
          <<[name |-> NameB]>>,
          <<[name |-> NameC, relative_value |-> <<"/", "p">>]>>,
          <<[name |-> NameD, value |-> RefA]>>)

\* the declarations a tier can hold.  convert_environment (transform.rs:80-136)
\* admits a relative value only when it starts with '/' and requires an
\* internal value
ExternalDecls == [name : VarNames, default : {None, Some(<<"d">>), Some(RefB)}]
OptionalDecls == [name : VarNames]
RelativeDecls == [name : VarNames, relative_value : {<<"/", "p">>, <<"/">> \o RefA}]
InternalDecls == [name : VarNames, value : {<<"i">>, RefA, <<"x">> \o RefB}]
TierLengths == {l \in (0..MaxDecls) \X (0..MaxDecls) \X (0..MaxDecls) \X (0..MaxDecls) :
                   l[1] + l[2] + l[3] + l[4] <= MaxDecls}
AppEnvironments ==
    UNION {{Tiers(e, o, r, i) : e \in [1..l[1] -> ExternalDecls],
                                o \in [1..l[2] -> OptionalDecls],
                                r \in [1..l[3] -> RelativeDecls],
                                i \in [1..l[4] -> InternalDecls]} : l \in TierLengths}
DeploymentValues == {<<>>,
                     <<[name |-> NameA, value |-> <<"w">>]>>,
                     <<[name |-> NameB, value |-> <<"u">>]>>}
HostOverrides == {None,
                  ServicesOf(Override(None, None, <<WebPort>>)),
                  ServicesOf(Override(None, Some("alt"), <<WebPort>>)),
                  ServicesOf(Override(None, Some("bare"), <<WebPort>>))}

NoYaml == [env_type |-> "K8S", swarm_mode |-> None, ingress_type |-> None,
           registry |-> None, ingress |-> Ingress, deployments |-> <<>>]
NoEnvSpec == [env_type |-> K8S, ingress |-> Ingress, registry |-> EmptyMap,
              deployments |-> <<>>]
NoDeployment == DeploymentOf("", <<>>, None)
NoService == [name |-> "api", is_app_service |-> TRUE, image_variants |-> <<>>]
Unset == Ok(<<>>)
\* no file and no process environment variable
NoOs == [files |-> EmptyMap, env |-> EmptyMap]

\* what every run starts with
Fresh ==
    /\ env_spec = NoEnvSpec
    /\ deployment = NoDeployment
    /\ host_domain_name = <<>>
    /\ raw_image = <<>>
    /\ image = <<>>
    /\ environment_variables = <<>>
    /\ idx = 0
    /\ result = Unset
    /\ resolved_configs = <<>>
    /\ resolved_secrets = <<>>
    /\ resolved_services = <<>>
    /\ public_host_prefix_combinations = {}
    /\ service_index = 0
    /\ ingress_rules = <<>>

\* resolve_variable_in_string on every template and variable list
InitInterp ==
    /\ pc = "call"
    /\ input \in Templates
    /\ vars \in VarLists
    /\ env_yaml = NoYaml
    /\ app_spec = AppOf(<<0, 0, 0>>, Tiers(<<>>, <<>>, <<>>, <<>>))
    /\ deployment_name = ""
    /\ app_service = NoService
    /\ os = NoOs
    /\ Fresh

\* environment descriptors, registries, images and variants
InitImage ==
    /\ pc = "convert_env_spec"
    /\ input = <<>>
    /\ vars = <<>>
    /\ \E env_type \in {"K8S", "Docker", "Local"},
          flags \in {<<None, None>>, <<Some(TRUE), Some("nginx")>>},
          registry \in {None} \cup {Some(m) : m \in RegistryMaps},
          others \in {<<>>, <<DeploymentOf("staging", <<>>, None)>>},
          services \in {None} \cup
                       {ServicesOf(Override(v, None, ps)) :
                           v \in {None, Some("dev"), Some("canary")},
                           ps \in {<<>>, <<WebPort>>}} :
          env_yaml = [env_type |-> env_type, swarm_mode |-> flags[1],
                      ingress_type |-> flags[2], registry |-> registry,
                      ingress |-> Ingress,
                      deployments |-> <<DeploymentOf("prod", <<>>, services)>> \o others]
    /\ app_spec \in {AppOf(v, SmallEnvironment) : v \in Versions}
    /\ deployment_name \in {"prod", "staging"}
    /\ app_service \in
          {[name |-> "api", is_app_service |-> a, image_variants |-> vs] :
              a \in BOOLEAN,
              vs \in {<<Variant("default", i)>> : i \in Images} \cup
                     {<<Variant("default", ImageA), Variant("dev", i)>> : i \in Images}}
    /\ os = NoOs
    /\ Fresh

\* application environments, deployment values and hosts
InitEnv ==
    /\ pc = "convert_env_spec"
    /\ input = <<>>
    /\ vars = <<>>
    /\ \E values \in DeploymentValues, services \in HostOverrides :
          env_yaml = [env_type |-> "K8S", swarm_mode |-> None, ingress_type |-> None,
                      registry |-> Some([k \in {NsW} |-> <<"r">>]),
                      ingress |-> Ingress,
                      deployments |-> <<DeploymentOf("prod", values, services)>>]
    /\ app_spec \in {AppOf(<<1, 2, 3>>, e) : e \in AppEnvironments}
    /\ deployment_name = "prod"
    /\ app_service = [name |-> "api", is_app_service |-> TRUE,
                      image_variants |-> <<Variant("default", ImageWA)>>]
    /\ os = NoOs
    /\ Fresh

\* the variable tiers and the selectors of one service
Selectors ==
    {All} \cup {Simple(n) : n \in VarNames}
          \cup {WithValue(n, v) : n \in VarNames, v \in {<<"v">>, RefA, RefB}}
SelectorLists == UNION {[1..n -> Selectors] : n \in 0..MaxSelectors}
FilterEnvironments ==
    {Tiers(<<[name |-> NameA, default |-> Some(<<"d">>)]>>, <<[name |-> NameB]>>, <<>>, <<>>),
     Tiers(<<[name |-> NameA, default |-> None]>>, <<>>, <<>>, <<>>),
     Tiers(<<>>, <<[name |-> NameA]>>, <<>>, <<[name |-> NameB, value |-> RefA]>>),
     Tiers(<<>>, <<>>, <<[name |-> NameA, relative_value |-> <<"/", "p">>]>>,
           <<[name |-> NameB, value |-> <<"i">>]>>)}

InitFilter ==
    /\ pc = "service_env"
    /\ input = <<>>
    /\ vars = <<>>
    /\ env_yaml = NoYaml
    /\ app_spec \in {AppOf(<<1, 2, 3>>, e) : e \in FilterEnvironments}
    /\ deployment_name = "prod"
    /\ app_service \in {[name |-> "api", is_app_service |-> TRUE, image_variants |-> <<>>,
                         environment |-> e] : e \in SelectorLists}
    /\ os = NoOs
    /\ env_spec = NoEnvSpec
    /\ deployment \in {DeploymentOf("prod", values, None) : values \in DeploymentValues}
    /\ host_domain_name = DomainM
    /\ raw_image = <<>>
    /\ image = <<>>
    /\ environment_variables = <<>>
    /\ idx = 0
    /\ result = Unset
    /\ resolved_configs = <<>>
    /\ resolved_secrets = <<>>
    /\ resolved_services = <<>>
    /\ public_host_prefix_combinations = {}
    /\ service_index = 0
    /\ ingress_rules = <<>>

\* services, overrides and prefixes of a whole application
PrefixApp == [prefix |-> "/app", strip |-> TRUE]
PrefixX == [prefix |-> "/x", strip |-> FALSE]
PrefixLists == UNION {[1..n -> {PrefixApp, PrefixX}] : n \in 0..MaxPrefixes}
AltPort == [external |-> 8081, internal |-> 81]
Sizing == [replicas |-> 1,
           requests |-> [memory |-> "64Mi", cpu |-> "100m"],
           limits |-> [memory |-> "128Mi", cpu |-> "200m"]]
OverrideWith(host, prefixes, ports) ==
    [variant |-> None, host |-> host, prefixes |-> prefixes, resources |-> Sizing,
     ports |-> ports]
\* Option<HashMap<String, DeploymentServiceSpec>> from one optional override per service
OverridesOf(o) ==
    LET named == {n \in DOMAIN o : o[n] # None}
    IN IF named = {} THEN None ELSE Some([n \in named |-> o[n][1]])
IngressWith(tls) == [name |-> "ingress", hosts |-> Ingress.hosts, tls |-> tls]
FullDeployment(name, application, configs, secrets, services) ==
    [name |-> name, primary_host |-> "main",
     application |-> application,
     environment |-> <<>>,
     undockerized_environment |-> <<[name |-> NameA, value |-> <<"u">>]>>,
     configs |-> configs, secrets |-> secrets, defaults |-> Sizing,
     services |-> services]
Application(name, version) == [name |-> name, version |-> version, extra |-> <<>>]
ServiceOf(name, service_type, is_app_service, environment, configs, secrets, ports) ==
    [name |-> name, service_type |-> service_type, is_app_service |-> is_app_service,
     image_variants |-> <<Variant("default", ImageWA)>>,
     environment |-> environment, configs |-> configs, secrets |-> secrets,
     ports |-> ports]
FullApp(environment, app_services, extra_services, configs, secrets) ==
    [name |-> "app", version |-> <<1, 2, 3>>, environment |-> environment,
     app_services |-> app_services, extra_services |-> extra_services,
     configs |-> configs, secrets |-> secrets]
EnvOf(tls, deployments) ==
    [env_type |-> K8S, ingress |-> IngressWith(tls),
     registry |-> [k \in {NsW} |-> <<"r">>], deployments |-> deployments]

\* what a run of the deployment command starts with
FreshMain ==
    /\ pc = "validate"
    /\ input = <<>>
    /\ vars = <<>>
    /\ env_yaml = NoYaml
    /\ app_service = NoService
    /\ deployment = NoDeployment
    /\ host_domain_name = <<>>
    /\ raw_image = <<>>
    /\ image = <<>>
    /\ environment_variables = <<>>
    /\ idx = 0
    /\ result = Unset
    /\ resolved_configs = <<>>
    /\ resolved_secrets = <<>>
    /\ resolved_services = <<>>
    /\ public_host_prefix_combinations = {}
    /\ service_index = 0
    /\ ingress_rules = <<>>

ApiOverrides ==
    {None} \cup {Some(OverrideWith(h, ps, pt)) :
                    h \in {None, Some("alt")}, ps \in PrefixLists,
                    pt \in {<<>>, <<WebPort>>, <<AltPort, WebPort>>}}
WebOverrides ==
    {None} \cup {Some(OverrideWith(h, ps, <<AltPort>>)) :
                    h \in {None, Some("alt"), Some("bare"), Some("ghost")},
                    ps \in PrefixLists}

\* two services, their types, their overrides and their order
InitServices ==
    /\ FreshMain
    /\ os = NoOs
    /\ deployment_name = "prod"
    /\ \E oa \in ApiOverrides, ob \in WebOverrides :
          env_spec = EnvOf(None,
                           <<FullDeployment("prod", Application("app", None), <<>>, <<>>,
                                            OverridesOf([n \in {"api", "web"} |->
                                                            IF n = "api" THEN oa ELSE ob]))>>)
    /\ \E ta \in {"Public", "Internal"}, tb \in {"Public", "Job"}, layout \in 1..3 :
          LET api == ServiceOf("api", ta, TRUE, <<All>>, <<>>, <<>>, <<WebPort>>)
              web == ServiceOf("web", tb, layout # 3,
                               <<Simple(NameC), WithValue(NameB, RefA)>>, <<>>, <<>>, <<>>)
          IN app_spec = FullApp(SmallEnvironment,
                                CASE layout = 1 -> <<api, web>>
                                  [] layout = 2 -> <<web, api>>
                                  [] layout = 3 -> <<api>>,
                                IF layout = 3 THEN <<web>> ELSE <<>>,
                                <<>>, <<>>)

\* the files and the process environment a run can find
TokenVar == <<"T">>
ConfigPath == <<"cfg", "a">>
SecretPath == <<"s">>
PlainFile(content) == [kind |-> "file", readable |-> TRUE, content |-> content]
LockedFile == [kind |-> "file", readable |-> FALSE, content |-> <<>>]
Directory(entries) == [kind |-> "dir", entries |-> entries]
OsStates ==
    {[files |-> [p \in {ConfigPath, SecretPath} |->
                    IF p = ConfigPath THEN PlainFile(<<"c">>) ELSE PlainFile(<<"k">>)],
      env |-> [n \in {TokenVar} |-> <<"t">>]],
     [files |-> [p \in {ConfigPath} |->
                    Directory(<<[name |-> "b", is_file |-> TRUE, readable |-> TRUE,
                                 content |-> <<"c">>],
                                [name |-> "sub", is_file |-> FALSE, readable |-> TRUE,
                                 content |-> <<>>]>>)],
      env |-> [n \in {TokenVar} |-> <<"t">>]],
     [files |-> [p \in {ConfigPath} |->
                    Directory(<<[name |-> "b", is_file |-> TRUE, readable |-> TRUE,
                                 content |-> <<"c">>],
                                [name |-> "c", is_file |-> TRUE, readable |-> TRUE,
                                 content |-> <<"d">>]>>)],
      env |-> EmptyMap],
     [files |-> [p \in {SecretPath} |-> PlainFile(<<"k">>)], env |-> EmptyMap],
     [files |-> [p \in {ConfigPath} |-> LockedFile], env |-> EmptyMap]}

DeploymentConfigs == {<<>>, <<[name |-> "settings", files |-> <<ConfigPath>>]>>}
DeploymentSecret(name, source) == [secret_name |-> name, source |-> source]
DeploymentSecrets ==
    {<<>>,
     <<DeploymentSecret("db-password", Embedded(<<"e">>))>>,
     <<DeploymentSecret("db-password", EnvVariableSource(TokenVar))>>,
     <<DeploymentSecret("db-password", FilePathSource(SecretPath))>>,
     <<DeploymentSecret("db-password", Embedded(<<"e">>)),
       DeploymentSecret("api-key", EnvVariableSource(TokenVar))>>}

\* what a service mounts
ConfigRef(name) == [config_name |-> name, mount_path |-> "/etc/" \o name]
SecretRef(name) ==
    [name |-> name, mount |-> [kind |-> "FilePath", arg |-> "/secrets/" \o name]]
ApiConfigRefs == {<<>>, <<ConfigRef("settings")>>, <<ConfigRef("other")>>}
ApiSecretRefs ==
    {<<>>, <<SecretRef("db-password")>>, <<SecretRef("api-key")>>,
     <<SecretRef("db-password"), SecretRef("api-key")>>}
WebConfigRefs == {<<>>, <<ConfigRef("settings")>>}
WebSecretRefs == {<<>>, <<SecretRef("api-key")>>}

\* two services and what they mount, against what the deployment provides and
\* what the run finds on disk and in its environment
InitBindings ==
    /\ FreshMain
    /\ os \in OsStates
    /\ deployment_name = "prod"
    /\ \E configs \in DeploymentConfigs, secrets \in DeploymentSecrets :
          env_spec =
              EnvOf(None,
                    <<FullDeployment("prod", Application("app", None), configs, secrets,
                                     Some([n \in {"api"} |->
                                              OverrideWith(None, <<PrefixApp>>,
                                                           <<WebPort>>)]))>>)
    /\ \E required \in BOOLEAN,
          ac \in ApiConfigRefs, as \in ApiSecretRefs,
          wc \in WebConfigRefs, ws \in WebSecretRefs :
          app_spec =
              FullApp(SmallEnvironment,
                      <<ServiceOf("api", "Public", TRUE, <<All>>, ac, as, <<WebPort>>),
                        ServiceOf("web", "Internal", TRUE, <<>>, wc, ws, <<>>)>>,
                      <<>>,
                      IF required THEN <<[name |-> "settings", files |-> <<>>]>> ELSE <<>>,
                      IF required THEN <<[secret_name |-> "db-password"]>> ELSE <<>>)

\* the checks of validate: the deployment and the application it expects, the
\* external variables and what the deployment supplies, what the application
\* requires, the services the deployment configures, the selectors of a service
NameZ == <<"Z">>
ValidatedExternals ==
    LET a == {[name |-> NameA, default |-> d] : d \in {None, Some(<<"d">>)}}
        b == {[name |-> NameB, default |-> d] : d \in {None, Some(<<"d">>)}}
    IN {<<>>} \cup {<<x>> : x \in a} \cup {<<x, y>> : x \in a, y \in b}
SuppliedValues ==
    {<<>>, <<[name |-> NameA, value |-> <<"1">>]>>, <<[name |-> NameB, value |-> <<"1">>]>>,
     <<[name |-> NameC, value |-> <<"1">>]>>,
     <<[name |-> NameA, value |-> <<"1">>], [name |-> NameB, value |-> <<"1">>]>>,
     <<[name |-> NameA, value |-> <<"1">>], [name |-> NameB, value |-> <<"1">>],
       [name |-> NameC, value |-> <<"1">>]>>}
ValidatedSelectors ==
    {<<All>>, <<Simple(NameA)>>, <<Simple(NameC)>>, <<Simple(NameD)>>, <<Simple(NameZ)>>}
VersionRequirements == {None, Some({<<1, 2, 3>>}), Some({<<2, 0, 0>>})}
ConfiguredServices ==
    {None,
     Some([n \in {"api"} |-> OverrideWith(None, <<PrefixApp>>, <<WebPort>>)]),
     Some([n \in {"ghost", "shadow"} |-> OverrideWith(None, <<>>, <<>>)])}
WithEnvironment(dep, values) == [dep EXCEPT !.environment = values]

InitValidate ==
    /\ FreshMain
    /\ os = NoOs
    /\ deployment_name \in {"prod", "staging"}
    /\ \E expected \in {"app", "other"}, req \in VersionRequirements,
          values \in SuppliedValues, services \in ConfiguredServices :
          env_spec =
              EnvOf(None,
                    <<WithEnvironment(
                          FullDeployment("prod", Application(expected, req), <<>>,
                                         <<DeploymentSecret("db-password",
                                                            Embedded(<<"e">>))>>,
                                         services),
                          values)>>)
    /\ \E external \in ValidatedExternals, selectors \in ValidatedSelectors,
          required \in {"nothing", "secret", "config"} :
          app_spec =
              FullApp(Tiers(external, <<[name |-> NameC]>>, <<>>,
                            <<[name |-> NameD, value |-> <<"v">>]>>),
                      <<ServiceOf("api", "Public", TRUE, selectors, <<>>, <<>>,
                                  <<WebPort>>)>>,
                      <<>>,
                      IF required = "config"
                      THEN <<[name |-> "settings", files |-> <<>>]>> ELSE <<>>,
                      IF required = "secret"
                      THEN <<[secret_name |-> "api-key"]>> ELSE <<>>)

\* the overrides of a deployment and the declarations they reach: what the
\* deployment supplies, what it supplies to an undockerized run, and tiers
\* whose values mention the supplied names
RefC == <<"$", "{", "C", "}">>
Supplied(n, v) == [name |-> n, value |-> v]
PrimaryOverrides ==
    {<<>>, <<Supplied(NameA, <<"w">>)>>, <<Supplied(NameB, <<"w">>)>>,
     <<Supplied(NameA, <<"w">>), Supplied(NameB, <<"w">>)>>}
UndockerizedOverrides ==
    {<<>>, <<Supplied(NameA, <<"u">>)>>, <<Supplied(NameB, <<"u">>)>>,
     <<Supplied(NameC, <<"u">>)>>,
     <<Supplied(NameB, <<"v">>), Supplied(NameA, <<"u">>)>>,
     <<Supplied(NameA, <<"u">>), Supplied(NameA, <<"v">>)>>}
OverriddenEnvironments ==
    {Tiers(e, o, r, i) :
        e \in {<<>>, <<[name |-> NameA, default |-> None]>>,
               <<[name |-> NameA, default |-> Some(<<"d">>)]>>},
        o \in {<<>>, <<[name |-> NameB]>>, <<[name |-> NameA]>>},
        r \in {<<>>, <<[name |-> NameC, relative_value |-> <<"/", "p">>]>>,
               <<[name |-> NameC, relative_value |-> <<"/">> \o RefA]>>},
        i \in {<<>>, <<[name |-> NameD, value |-> RefA]>>,
               <<[name |-> NameD, value |-> <<"x">> \o RefB]>>,
               <<[name |-> NameD, value |-> RefC]>>,
               <<[name |-> NameA, value |-> <<"i">>]>>}}
OverriddenSelectors ==
    {<<All>>, <<Simple(NameA), Simple(NameD)>>,
     <<WithValue(NameB, RefA), Simple(NameC)>>,
     <<All, WithValue(NameZ, <<"z">> \o RefB)>>}

InitUndockerized ==
    /\ FreshMain
    /\ os = NoOs
    /\ deployment_name = "prod"
    /\ \E values \in PrimaryOverrides, undockerized \in UndockerizedOverrides :
          env_spec =
              EnvOf(None,
                    <<[FullDeployment("prod", Application("app", None), <<>>, <<>>, None)
                          EXCEPT !.environment = values,
                                 !.undockerized_environment = undockerized]>>)
    /\ \E environment \in OverriddenEnvironments, selectors \in OverriddenSelectors :
          app_spec =
              FullApp(environment,
                      <<ServiceOf("api", "Internal", TRUE, <<All>>, <<>>, <<>>, <<WebPort>>),
                        ServiceOf("web", "Internal", TRUE, selectors, <<>>, <<>>,
                                  <<WebPort>>)>>,
                      <<>>, <<>>, <<>>)

\* the descriptor strings: a name character, whitespace, '=' and the two quotes
DescriptorChars == {"F", SPACE, EQUALS, DOUBLE_QUOTE, SINGLE_QUOTE}
DescriptorStrings == UNION {[1..n -> DescriptorChars] : n \in 0..MaxInputLen}

InitParse ==
    /\ pc = "parse"
    /\ input \in DescriptorStrings
    /\ vars = <<>>
    /\ env_yaml = NoYaml
    /\ app_spec = AppOf(<<0, 0, 0>>, Tiers(<<>>, <<>>, <<>>, <<>>))
    /\ deployment_name = ""
    /\ app_service = NoService
    /\ os = NoOs
    /\ Fresh

SpecInterp == InitInterp /\ [][NextInterp]_allVars
SpecImage == InitImage /\ [][Next]_allVars
SpecEnv == InitEnv /\ [][Next]_allVars
SpecFilter == InitFilter /\ [][NextFilter]_allVars
SpecServices == InitServices /\ [][NextMain]_allVars
SpecBindings == InitBindings /\ [][NextMain]_allVars
SpecValidate == InitValidate /\ [][NextMain]_allVars
SpecUndockerized == InitUndockerized /\ [][NextMain]_allVars
SpecParse == InitParse /\ [][NextParse]_allVars

----------------------------------------------------------------------------
(* What the claims are stated with: a template read one character at a     *)
(* time, independently of the scanning loop of the code.                   *)

OpensReference(t) == Len(t) >= 2 /\ t[1] = "$" /\ t[2] = "{"
HasReference(t) == \E k \in 1..(Len(t) - 1) : t[k] = "$" /\ t[k + 1] = "{"
Closings(t) == {k \in 3..Len(t) : t[k] = "}"}
IsBound(vs, n) == \E k \in 1..Len(vs) : vs[k].name = n
ValueOf(vs, n) == vs[MinOf({k \in 1..Len(vs) : vs[k].name = n})].value
Reference(n) == <<"$", "{">> \o n \o <<"}">>
Mentions(t, n) == StrFind(t, Reference(n)) # None

\* how a left-to-right reading of t ends: "ok", "malformed" at a `${` with no
\* `}` after it, or "undefined" at the first `${name}` with name unbound
RECURSIVE Reading(_, _)
Reading(t, vs) ==
    IF t = <<>> THEN [kind |-> "ok", name |-> <<>>]
    ELSE IF ~OpensReference(t) THEN Reading(Tail(t), vs)
    ELSE IF Closings(t) = {} THEN [kind |-> "malformed", name |-> <<>>]
    ELSE LET k == MinOf(Closings(t))
             n == SubSeq(t, 3, k - 1)
         IN IF IsBound(vs, n) THEN Reading(SubSeq(t, k + 1, Len(t)), vs)
            ELSE [kind |-> "undefined", name |-> n]

\* t with every `${name}` replaced by the value of name and every other
\* character copied; the replacement is not read again
RECURSIVE Substituted(_, _)
Substituted(t, vs) ==
    IF t = <<>> THEN <<>>
    ELSE IF ~OpensReference(t) \/ Closings(t) = {}
    THEN <<Head(t)>> \o Substituted(Tail(t), vs)
    ELSE LET k == MinOf(Closings(t))
             n == SubSeq(t, 3, k - 1)
         IN (IF IsBound(vs, n) THEN ValueOf(vs, n) ELSE <<>>)
            \o Substituted(SubSeq(t, k + 1, Len(t)), vs)

----------------------------------------------------------------------------
(* C1: resolve_variable_in_string(T, V), when it succeeds, returns T with  *)
(* every `${name}` met in one left-to-right pass replaced by the value of  *)
(* name in V and every other character copied; a substituted value is not  *)
(* scanned again, and a T without `${` is returned unchanged.              *)
C1_Substitution ==
    pc = "returned" =>
        /\ result.ok => result.val = Substituted(input, vars)
        /\ ~HasReference(input) => result = Ok(input)
        /\ \A n \in VarNames :
              (input = Reference(n) /\ IsBound(vars, n)) => result = Ok(ValueOf(vars, n))

\* "A${A}" with A bound to "${B}" gives "A${B}"
C1_Witness ==
    /\ pc = "returned"
    /\ input = <<"A">> \o RefA
    /\ IsBound(vars, NameA) /\ ValueOf(vars, NameA) = RefB
    /\ result = Ok(<<"A">> \o RefB)

(* C2: resolve_variable_in_string(T, V) fails exactly when the             *)
(* left-to-right scan meets a `${` with no `}` after it or a `${name}`     *)
(* with name unbound in V; `${A}` against {A: v} gives v, `${B}` against   *)
(* {A: v} fails.                                                           *)
C2_FailsExactly ==
    pc = "returned" =>
        LET r == Reading(input, vars)
        IN /\ result.ok <=> r.kind = "ok"
           /\ r.kind = "malformed" =>
                 result = Err("Invalid variable reference", input)
           /\ r.kind = "undefined" =>
                 result = Err("Undefined variable", r.name)
           /\ (input = RefA /\ vars = <<[name |-> NameA, value |-> <<"v">>]>>) =>
                 result = Ok(<<"v">>)
           /\ (input = RefB /\ vars = <<[name |-> NameA, value |-> <<"v">>]>>) =>
                 ~result.ok

\* `${B}` against {A: v}
C2_Witness ==
    /\ pc = "returned"
    /\ input = RefB
    /\ vars = <<[name |-> NameA, value |-> <<"v">>]>>
    /\ result = Err("Undefined variable", NameB)

----------------------------------------------------------------------------
(* The environment of the run, as the claims name it *)

External == app_spec.environment.external
Optional == app_spec.environment.optional
Relative == app_spec.environment.relative
Internal == app_spec.environment.internal
IsSupplied(n) == IsBound(deployment.environment, n)
SuppliedValue(n) == ValueOf(deployment.environment, n)

RelativeContext == "Failed to resolve relative env variable"
InternalContext == "Failed to resolve internal env variable"

DeclaredNames ==
    [k \in 1..Len(External) |-> External[k].name]
    \o [k \in 1..Len(Optional) |-> Optional[k].name]
    \o [k \in 1..Len(Relative) |-> Relative[k].name]
    \o [k \in 1..Len(Internal) |-> Internal[k].name]
DistinctDeclared ==
    \A i, j \in 1..Len(DeclaredNames) : DeclaredNames[i] = DeclaredNames[j] => i = j

\* the domains of ingress host h
DomainsOf(h) ==
    LET hosts == env_spec.ingress.hosts
        named == {k \in 1..Len(hosts) : hosts[k].name = h}
    IN IF named = {} THEN <<>> ELSE hosts[MinOf(named)].domain_names
\* the host the deployment binds the service to
EffectiveHost ==
    IF /\ deployment.services # None
       /\ app_service.name \in DOMAIN deployment.services[1]
       /\ deployment.services[1][app_service.name].host # None
    THEN deployment.services[1][app_service.name].host[1]
    ELSE deployment.primary_host

(* C3 as stated: when an external entry has no deployment-supplied value   *)
(* and its default contains `${N}` with N an internal entry's name,        *)
(* environment resolution fails (with an undefined-reference error).       *)
ExternalDefaultMentionsInternal ==
    \E e \in 1..Len(External), i \in 1..Len(Internal) :
        /\ External[e].default # None
        /\ ~IsSupplied(External[e].name)
        /\ Mentions(External[e].default[1], Internal[i].name)
C3_Original == ExternalDefaultMentionsInternal => pc # "vars_resolved"

(* C3 as amended: an external value is never interpolated.  When an        *)
(* external entry has no deployment-supplied value its default is bound    *)
(* verbatim, `${N}` included, and its resolution does not fail; an         *)
(* undefined-reference error of resolve_app_env_vars comes from a relative *)
(* or an internal entry only.                                              *)
C3_DefaultVerbatim ==
    /\ []((pc = "failed" /\ result.err.msg = "Undefined variable") =>
             result.err.context \in {RelativeContext, InternalContext})
    /\ [][pc = "external" =>
             LET e == External[idx]
             IN (e.default # None /\ ~IsSupplied(e.name)) =>
                   /\ pc' # "failed"
                   /\ IsBound(environment_variables', e.name)
                   /\ ValueOf(environment_variables', e.name) = e.default[1]
         ]_allVars

\* external A with default "${B}", internal B: both resolve, A keeps "${B}"
C3_Witness ==
    /\ pc = "vars_resolved"
    /\ External = <<[name |-> NameA, default |-> Some(RefB)]>>
    /\ Internal = <<[name |-> NameB, value |-> <<"i">>]>>
    /\ deployment.environment = <<>>
    /\ result = Ok(<<[name |-> NameA, value |-> RefB],
                     [name |-> NameB, value |-> <<"i">>]>>)

(* C4: with all declared names distinct, an internal entry's value gets    *)
(* the resolved values of the external, optional and relative entries and  *)
(* of the internal entries declared before it substituted; a reference to  *)
(* an internal entry declared after it makes resolution fail with an       *)
(* undefined-reference error.                                              *)
ResolvedBefore(i) ==
    {External[k].name : k \in 1..Len(External)}
    \cup {Optional[k].name : k \in {k \in 1..Len(Optional) : IsSupplied(Optional[k].name)}}
    \cup {Relative[k].name : k \in 1..Len(Relative)}
    \cup {Internal[k].name : k \in 1..(i - 1)}
MentionsLater(i) ==
    \E j \in (i + 1)..Len(Internal) : Mentions(Internal[i].value, Internal[j].name)
C5_ExternalValue ==
    /\ [](pc = "failed" => (~result.ok /\ result.val = <<>>))
    /\ [][pc = "external" =>
             LET e == External[idx]
             IN /\ IsSupplied(e.name) =>
                      /\ pc' # "failed"
                      /\ IsBound(environment_variables', e.name)
                      /\ ValueOf(environment_variables', e.name) = SuppliedValue(e.name)
                /\ (~IsSupplied(e.name) /\ e.default # None) =>
                      /\ pc' # "failed"
                      /\ IsBound(environment_variables', e.name)
                      /\ ValueOf(environment_variables', e.name) = e.default[1]
                /\ (~IsSupplied(e.name) /\ e.default = None) =>
                      /\ pc' = "failed"
                      /\ result' = Err("Missing external env variable", e.name)
         ]_allVars

\* external A with default "d", supplied as "w"
C5_Witness ==
    /\ pc = "vars_resolved"
    /\ External = <<[name |-> NameA, default |-> Some(<<"d">>)]>>
    /\ deployment.environment = <<[name |-> NameA, value |-> <<"w">>]>>
    /\ IsBound(result.val, NameA)
    /\ result.val[1] = [name |-> NameA, value |-> <<"w">>]

(* C6 as stated: for every service, also one whose override names its own  *)
(* host, a relative entry with value V resolves to "https://" + D + V      *)
(* with D the domain of the deployment's primary host.                     *)
C6_Original ==
    [][(pc = "relative" /\ pc' # "failed") =>
          LET r == Relative[idx]
              url == HTTPS \o DomainsOf(deployment.primary_host)[1] \o r.relative_value
          IN /\ IsBound(environment_variables', r.name)
             /\ ValueOf(environment_variables', r.name)
                   = Substituted(url, environment_variables)
      ]_allVars

(* C6 as amended: a relative entry with value V resolves to                *)
(* "https://" + D + V, where D is the first domain of the host the service *)
(* is bound to (its override's host, else the primary host), with every    *)
(* `${name}` of that text interpolated from the external, optional and     *)
(* earlier relative entries; it fails when a reference is malformed or     *)
(* unbound there.                                                          *)
C6_RelativeUrl ==
    [][pc = "relative" =>
          LET r == Relative[idx]
              url == HTTPS \o DomainsOf(EffectiveHost)[1] \o r.relative_value
          IN /\ DomainsOf(EffectiveHost) # <<>>
             /\ Reading(url, environment_variables).kind = "ok" =>
                   /\ pc' # "failed"
                   /\ IsBound(environment_variables', r.name)
                   /\ ValueOf(environment_variables', r.name)
                         = Substituted(url, environment_variables)
             /\ Reading(url, environment_variables).kind # "ok" =>
                   /\ pc' = "failed"
                   /\ result'.err.context = RelativeContext
                   /\ result'.err.subject = r.name
      ]_allVars

\* the override binds the service to host "alt", whose domain is "n"
C6_Witness ==
    /\ pc = "vars_resolved"
    /\ EffectiveHost = "alt"
    /\ deployment.primary_host = "main"
    /\ Relative = <<[name |-> NameA, relative_value |-> <<"/", "p">>]>>
    /\ result.val = <<[name |-> NameA, value |-> HTTPS \o DomainN \o <<"/", "p">>]>>

----------------------------------------------------------------------------
(* The image of the run, as the claims name it *)

RegistryRequired == "Registry mapping is required for non-local deployments"
NamespaceNotFound == "Docker registry host for namespace not found in environment spec"

ImageResolved == pc \in {"external", "optional", "relative", "internal", "vars_resolved"}
ImageFailed == pc = "failed" /\ result.err.msg \in {RegistryRequired, NamespaceNotFound}
ImageSettled == ImageResolved \/ ImageFailed
\* a variant was found and tagged
ImageSelected == raw_image # <<>>

IsLocal == env_spec.env_type.kind = "Local"
\* the image of the variant the deployment selects
Selected ==
    SelectVariant(app_service, VariantName(DeploymentServiceOpt(deployment, app_service)))[1]
HasSlash(i) == \E k \in 1..Len(i) : i[k] = "/"
\* the text before the first `/`
Namespace(i) == SubSeq(i, 1, MinOf({k \in 1..Len(i) : i[k] = "/"}) - 1)
VersionTag == <<":">> \o VersionToString(app_spec.version)
WithoutTrailingSlash(h) ==
    IF Len(h) > 0 /\ h[Len(h)] = "/" THEN SubSeq(h, 1, Len(h) - 1) ELSE h

NamespacedAppImage ==
    /\ ImageSettled
    /\ ~IsLocal
    /\ app_service.is_app_service
    /\ HasSlash(Selected)

(* C7 as stated: in a non-Local environment an application service whose   *)
(* selected image is "ns/rest", with the registry mapping ns to host H and *)
(* application version v, resolves to the image "H/ns/rest:v".             *)
C7_Original ==
    (NamespacedAppImage /\ Namespace(Selected) \in DOMAIN env_spec.registry) =>
        /\ ImageResolved
        /\ image = env_spec.registry[Namespace(Selected)] \o <<"/">> \o Selected \o VersionTag

(* C7 as amended: in a non-Local environment an application service whose  *)
(* selected image is "ns/rest", with the registry mapping ns to host H and *)
(* application version v, resolves to "H'/ns/rest:v", where H' is H        *)
(* without one trailing "/" if it has one; w/a with {w: r} and 1.2.3 gives *)
(* r/w/a:1.2.3.                                                            *)
C7_RegistryPrefix ==
    /\ (NamespacedAppImage /\ Namespace(Selected) \in DOMAIN env_spec.registry) =>
          /\ ImageResolved
          /\ image = WithoutTrailingSlash(env_spec.registry[Namespace(Selected)])
                        \o <<"/">> \o Selected \o VersionTag
    /\ (/\ NamespacedAppImage
        /\ Selected = ImageWA
        /\ env_spec.registry = [k \in {NsW} |-> <<"r">>]
        /\ app_spec.version = <<1, 2, 3>>) =>
          image = <<"r", "/", "w", "/", "a", ":", "1", ".", "2", ".", "3">>

\* w/a with {w: "q/"} and 0.10.0: the host's trailing slash is not doubled
C7_Witness ==
    /\ NamespacedAppImage
    /\ Selected = ImageWA
    /\ env_spec.registry = [k \in {NsW} |-> <<"q", "/">>]
    /\ app_spec.version = <<0, 10, 0>>
    /\ image = <<"q", "/", "w", "/", "a", ":", "0", ".", "1", "0", ".", "0">>

SlashlessImage == ImageSettled /\ ~IsLocal /\ ~HasSlash(Selected)
Passed ==
    /\ ImageResolved
    /\ image = Selected \o (IF app_service.is_app_service THEN VersionTag ELSE <<>>)
C9_Original == SlashlessImage => Passed

(* C9 as amended: in a non-Local environment a service whose selected      *)
(* image contains no `/` resolves to the image name, plus the version tag  *)
(* for an application service, for every registry map that is not empty;   *)
(* with the empty registry map resolution fails, for every service, with   *)
(* "Registry mapping is required for non-local deployments".               *)
C9_PassThrough ==
    /\ (SlashlessImage /\ env_spec.registry # EmptyMap) => Passed
    /\ (ImageSettled /\ ~IsLocal /\ env_spec.registry = EmptyMap) =>
          /\ pc = "failed"
          /\ result.err.msg = RegistryRequired
          /\ image = <<>>

\* image a, registry {we: r}, version 1.2.3: the image is a:1.2.3
C9_Witness ==
    /\ SlashlessImage
    /\ app_service.is_app_service
    /\ Selected = ImageA
    /\ env_spec.registry = [k \in {NsWe} |-> <<"r">>]
    /\ image = <<"a", ":", "1", ".", "2", ".", "3">>

(* C10: in a non-Local environment, resolution of an application service   *)
(* whose selected image is "ns/rest" fails when no key of the registry map *)
(* equals ns; a key that is a proper prefix of ns, or that ns is a proper  *)
(* prefix of, does not match.                                              *)
C10_ExactNamespace ==
    (NamespacedAppImage /\ Namespace(Selected) \notin DOMAIN env_spec.registry) =>
        /\ pc = "failed"
        /\ ~result.ok
        /\ image = <<>>
        /\ env_spec.registry # EmptyMap =>
              result = Err(NamespaceNotFound, Namespace(Selected))

\* image we/a with only the key w, a prefix of we
C10_Witness ==
    /\ NamespacedAppImage
    /\ Selected = ImageWeA
    /\ DOMAIN env_spec.registry = {NsW}
    /\ result = Err(NamespaceNotFound, NsWe)

----------------------------------------------------------------------------
(* Extra services *)

NamespacedExtraImage ==
    /\ ImageSettled
    /\ ~IsLocal
    /\ ~app_service.is_app_service
    /\ HasSlash(Selected)

----------------------------------------------------------------------------
(* The selectors of a service, as the claims name them *)

UndefinedEnvVar == "Service references undefined env var"
SelectorContext == "Failed to resolve env var"

\* filter_service_env_vars has returned
FilterReturned ==
    \/ pc = "service_env_filtered"
    \/ /\ pc = "failed"
       /\ (result.err.msg = UndefinedEnvVar \/ result.err.context = SelectorContext)
\* the deployment's full resolved set
FullSet == environment_variables
Selector(i) == app_service.environment[i]
SelectorCount == Len(app_service.environment)

\* selector i yields a binding of name n
Yields(i, n) ==
    CASE Selector(i).kind = "All" -> IsBound(FullSet, n)
      [] Selector(i).kind = "Simple" -> Selector(i).name = n
      [] Selector(i).kind = "WithValue" -> Selector(i).name = n
YieldedValue(i, n) ==
    IF Selector(i).kind = "WithValue"
    THEN Substituted(Selector(i).value, FullSet)
    ELSE ValueOf(FullSet, n)
\* selector i can be applied
Applies(i) ==
    CASE Selector(i).kind = "All" -> TRUE
      [] Selector(i).kind = "Simple" -> IsBound(FullSet, Selector(i).name)
      [] Selector(i).kind = "WithValue" -> Reading(Selector(i).value, FullSet).kind = "ok"
MaxOf(S) == CHOOSE x \in S : \A y \in S : y <= x

(* C14: the selectors of a service are applied in declaration order and a   *)
(* later selector yielding a name already present overwrites its value:     *)
(* the final value of every name in the service's list is the one of the    *)
(* last selector yielding that name, and every name occurs once.            *)
C14_LastSelectorWins ==
    pc = "service_env_filtered" =>
        LET out == result.val
        IN /\ \A j, k \in 1..Len(out) : out[j].name = out[k].name => j = k
           /\ \A n \in VarNames :
                 LET yielding == {i \in 1..SelectorCount : Yields(i, n)}
                 IN /\ IsBound(out, n) <=> yielding # {}
                    /\ yielding # {} =>
                          ValueOf(out, n) = YieldedValue(MaxOf(yielding), n)

\* A selected with its resolved value "d", then A=v: A ends as "v"
C14_Witness ==
    /\ pc = "service_env_filtered"
    /\ app_service.environment = <<Simple(NameA), WithValue(NameA, <<"v">>)>>
    /\ FullSet = <<[name |-> NameA, value |-> <<"d">>]>>
    /\ result = Ok(<<[name |-> NameA, value |-> <<"v">>]>>)

(* C15: `$all` contributes every variable of the deployment's full         *)
(* resolved set; a bare name contributes that variable with its resolved    *)
(* value and is fatal when the name is absent from the full set, as for an  *)
(* optional entry the deployment did not supply; `name=value` contributes   *)
(* name bound to value interpolated against the full set, not against the   *)
(* variables the service has selected so far.                               *)
OnlyOptional(n) ==
    /\ \E k \in 1..Len(Optional) : Optional[k].name = n
    /\ \A k \in 1..Len(External) : External[k].name # n
    /\ \A k \in 1..Len(Relative) : Relative[k].name # n
    /\ \A k \in 1..Len(Internal) : Internal[k].name # n
C15_SelectorKinds ==
    FilterReturned =>
        /\ result.ok <=> \A i \in 1..SelectorCount : Applies(i)
        /\ ~result.ok =>
              LET first == Selector(MinOf({i \in 1..SelectorCount : ~Applies(i)}))
              IN IF first.kind = "Simple"
                 THEN result = Err(UndefinedEnvVar, <<app_service.name, first.name>>)
                 ELSE /\ result.err.context = SelectorContext
                      /\ result.err.subject = <<app_service.name, first.name, first.value>>
        /\ (result.ok /\ SelectorCount = 1) =>
              result.val =
                 CASE Selector(1).kind = "All" -> FullSet
                   [] Selector(1).kind = "Simple" ->
                        <<[name |-> Selector(1).name,
                           value |-> ValueOf(FullSet, Selector(1).name)]>>
                   [] Selector(1).kind = "WithValue" ->
                        <<[name |-> Selector(1).name,
                           value |-> Substituted(Selector(1).value, FullSet)]>>
        /\ (result.ok /\ \E i \in 1..SelectorCount : Selector(i).kind = "All") =>
              \A n \in VarNames : IsBound(FullSet, n) => IsBound(result.val, n)
        /\ \A i \in 1..SelectorCount :
              (/\ Selector(i).kind = "Simple"
               /\ OnlyOptional(Selector(i).name)
               /\ ~IsSupplied(Selector(i).name)) => ~result.ok

\* optional B is not supplied and the service selects B
C15_Witness ==
    /\ pc = "failed"
    /\ Optional = <<[name |-> NameB]>>
    /\ deployment.environment = <<>>
    /\ app_service.environment = <<Simple(NameB)>>
    /\ FullSet = <<[name |-> NameA, value |-> <<"d">>]>>
    /\ result = Err(UndefinedEnvVar, <<"api", NameB>>)

----------------------------------------------------------------------------
(* The service loop and the ingress of a run of the deployment command *)

Resolved == pc = "resolved"
ResolveFailed == pc = "failed"
DuplicateBinding ==
    /\ ResolveFailed
    /\ result.err.msg = "Duplicate host+prefix combination for public service"

\* the deployment the command names, and what it overrides
Deployed ==
    env_spec.deployments[CHOOSE k \in 1..Len(env_spec.deployments) :
                            env_spec.deployments[k].name = deployment_name]
Services == all_services(app_spec)
HasOverride(n) == Deployed.services # None /\ n \in DOMAIN Deployed.services[1]
OverrideFor(n) == Deployed.services[1][n]
HostNameOf(n) ==
    IF HasOverride(n) /\ OverrideFor(n).host # None
    THEN OverrideFor(n).host[1]
    ELSE Deployed.primary_host
DeclaredPrefixes(n) == IF HasOverride(n) THEN OverrideFor(n).prefixes ELSE <<>>

\* the prefix declarations of Public services: (position of the service, position
\* of the prefix in its override)
PublicDeclarations ==
    {c \in (1..Len(Services)) \X (1..MaxPrefixes) :
        /\ Services[c[1]].service_type = "Public"
        /\ c[2] <= Len(DeclaredPrefixes(Services[c[1]].name))}
ClaimOf(c) ==
    <<HostNameOf(Services[c[1]].name),
      DeclaredPrefixes(Services[c[1]].name)[c[2]].prefix>>
SameClaim(c, d) == c # d /\ ClaimOf(c) = ClaimOf(d)
ClaimedTwice == \E c, d \in PublicDeclarations : SameClaim(c, d)

\* C12: resolve succeeds only if no (effective host name, prefix) pair is claimed
\* by two prefix declarations of Public services, of two services or of one
\* service, in whatever order the services are declared; with such a pair the
\* run never gets past the service loop.
C12_UniqueBindings ==
    ClaimedTwice => pc \notin {"ingress", "resolved"}

\* two services, the later declared one first in the application, claim one pair
C12_Witness ==
    /\ DuplicateBinding
    /\ Services[1].name = "web"
    /\ \E c, d \in PublicDeclarations : c[1] # d[1] /\ SameClaim(c, d)
    /\ ~ \E c, d \in PublicDeclarations : c[1] = d[1] /\ SameClaim(c, d)

\* declarations in the order the service loop meets them
Earlier(c, d) == c[1] < d[1] \/ (c[1] = d[1] /\ c[2] < d[2])
Repeats ==
    {d \in PublicDeclarations :
        \E c \in PublicDeclarations : Earlier(c, d) /\ ClaimOf(c) = ClaimOf(d)}
FirstRepeat == CHOOSE d \in Repeats : \A e \in Repeats : e = d \/ Earlier(d, e)
\* the declaration that claimed the pair before FirstRepeat
FirstHolder ==
    CHOOSE c \in PublicDeclarations :
        Earlier(c, FirstRepeat) /\ ClaimOf(c) = ClaimOf(FirstRepeat)
RepeatingService == Services[FirstRepeat[1]].name
HoldingService == Services[FirstHolder[1]].name
ErrorNames(n) == \E k \in DOMAIN result.err.arg : result.err.arg[k] = n

\* C13 as stated: when two Public services are bound to the same host with the
\* same prefix, the error of resolve names both services.
C13_Original ==
    (DuplicateBinding /\ HoldingService # RepeatingService)
        => ErrorNames(HoldingService) /\ ErrorNames(RepeatingService)

\* C13: when two Public services are bound to the same host with the same
\* prefix, the error of resolve names the host, the prefix and one service: the
\* one declared later, at which the repeat is found; the service that claimed
\* the pair first is not named.
C13_NamesRepeatingService ==
    DuplicateBinding =>
        /\ result.err.arg =
              <<RepeatingService, ClaimOf(FirstRepeat)[1], ClaimOf(FirstRepeat)[2]>>
        /\ HoldingService # RepeatingService => ~ErrorNames(HoldingService)

C13_Witness ==
    /\ DuplicateBinding
    /\ HoldingService = "api"
    /\ RepeatingService = "web"
    /\ ClaimOf(FirstRepeat) = <<"main", "/app">>

----------------------------------------------------------------------------
(* What services mount *)

FullName(n) == app_spec.name \o "-" \o n
\* the names resolved from the chosen deployment
DeploymentConfigNames ==
    {FullName(Deployed.configs[k].name) : k \in 1..Len(Deployed.configs)}
DeploymentSecretNames ==
    {FullName(Deployed.secrets[k].secret_name) : k \in 1..Len(Deployed.secrets)}
MissingConfigs(svc) ==
    {i \in 1..Len(svc.configs) :
        FullName(svc.configs[i].config_name) \notin DeploymentConfigNames}
MissingSecrets(svc) ==
    {i \in 1..Len(svc.secrets) :
        FullName(svc.secrets[i].name) \notin DeploymentSecretNames}
HasMissing(svc) == MissingConfigs(svc) # {} \/ MissingSecrets(svc) # {}
FirstWithMissing ==
    Services[MinOf({k \in 1..Len(Services) : HasMissing(Services[k])})]
UndefinedConfig == "Service references undefined config"
UndefinedSecret == "Service references undefined secret"
\* the failure of the first missing reference of a service, configs first
MissingReference(svc) ==
    IF MissingConfigs(svc) # {}
    THEN Err(UndefinedConfig,
             <<svc.name, FullName(svc.configs[MinOf(MissingConfigs(svc))].config_name)>>)
    ELSE Err(UndefinedSecret,
             <<svc.name, FullName(svc.secrets[MinOf(MissingSecrets(svc))].name)>>)
ServiceLoopFailed ==
    ResolveFailed /\ result.err.msg \in {UndefinedConfig, UndefinedSecret}
Bound(names, resolved) ==
    \A n \in names : \E k \in 1..Len(resolved) : resolved[k].name = n

\* C16: when a service references a config or a secret whose name {app}-{name}
\* is not among those resolved from the chosen deployment, resolve does not
\* succeed, and the failure of the check names the service and the missing name
\* (the first such service in order, its configs before its secrets); on
\* success every config and secret binding of a resolved service names an entry
\* of the resolved deployment's configs or secrets.
C16_ReferenceIntegrity ==
    /\ (\E k \in 1..Len(Services) : HasMissing(Services[k]))
          => /\ pc \notin {"ingress", "resolved"}
             /\ (/\ ResolveFailed
                 /\ Len(resolved_configs) = Len(Deployed.configs)
                 /\ Len(resolved_secrets) = Len(Deployed.secrets))
                   => result = MissingReference(FirstWithMissing)
    /\ ServiceLoopFailed
          => \E k \in 1..Len(Services) :
                HasMissing(Services[k]) /\ result = MissingReference(Services[k])
    /\ Resolved
          => LET d == result.val.current_deployment
             IN \A k \in 1..Len(d.services) :
                   /\ Bound({d.services[k].configs[i].config_name :
                                i \in 1..Len(d.services[k].configs)}, d.configs)
                   /\ Bound({d.services[k].secrets[i].name :
                                i \in 1..Len(d.services[k].secrets)}, d.secrets)
                   /\ Len(d.services[k].configs) = Len(Services[k].configs)
                   /\ Len(d.services[k].secrets) = Len(Services[k].secrets)

\* the second service references a secret the deployment lacks, after the
\* first one was resolved with a config and a secret bound
C16_Witness ==
    /\ ServiceLoopFailed
    /\ result = Err(UndefinedSecret, <<"web", "app-api-key">>)
    /\ Len(resolved_services) = 1
    /\ resolved_services[1].configs =
          <<[config_name |-> "app-settings", mount_path |-> "/etc/settings"]>>
    /\ resolved_services[1].secrets # <<>>

DeclaresPorts(n) == HasOverride(n) /\ OverrideFor(n).ports # <<>>

\* C17: the ports of a resolved service are the ports of the deployment's
\* override for it when that override declares ports; with no override, or an
\* override that declares no ports, they are the ports the application declares
\* for the service.
C17_Ports ==
    \A k \in 1..Len(resolved_services) :
        resolved_services[k].ports =
            IF DeclaresPorts(Services[k].name)
            THEN OverrideFor(Services[k].name).ports
            ELSE Services[k].ports

\* the routing rules of the result
Rules == result.val.ingress.rules
Hosts == env_spec.ingress.hosts
\* the prefix declarations of Public services whose effective host is h
DeclarationsOn(h) == {c \in PublicDeclarations : ClaimOf(c)[1] = h}
RouteOf(c) ==
    LET p == DeclaredPrefixes(Services[c[1]].name)[c[2]]
    IN <<FullName(Services[c[1]].name), p.prefix, p.strip>>
RoutesOf(e) ==
    {<<e.services[i].service_name, e.services[i].prefix, e.services[i].strip_prefix>> :
        i \in 1..Len(e.services)}
EntriesFor(dm) == {k \in 1..Len(Rules) : Rules[k].domain_name = dm}
RoutedType(n) ==
    {Services[k].service_type : k \in {j \in 1..Len(Services) : FullName(Services[j].name) = n}}

\* C18: the ingress rules of the result are, for every ingress host and every
\* domain name under it, one rule per prefix declaration of a Public service
\* whose effective host is that host, carrying the service's full name, the
\* prefix and its strip flag; a service that is not Public has no rule; a
\* domain without rules has no entry, and no entry has an empty rule list.
C18_IngressRules ==
    Resolved =>
        /\ \A h \in 1..Len(Hosts) : \A j \in 1..Len(Hosts[h].domain_names) :
              LET dm == Hosts[h].domain_names[j]
                  declared == DeclarationsOn(Hosts[h].name)
              IN IF declared = {} THEN EntriesFor(dm) = {}
                 ELSE /\ Cardinality(EntriesFor(dm)) = 1
                      /\ \A k \in EntriesFor(dm) :
                            /\ RoutesOf(Rules[k]) = {RouteOf(c) : c \in declared}
                            /\ Len(Rules[k].services) = Cardinality(declared)
        /\ \A k \in 1..Len(Rules) :
              /\ Rules[k].services # <<>>
              /\ \E h \in 1..Len(Hosts) : \E j \in 1..Len(Hosts[h].domain_names) :
                    Hosts[h].domain_names[j] = Rules[k].domain_name
              /\ \A i \in 1..Len(Rules[k].services) :
                    RoutedType(Rules[k].services[i].service_name) = {"Public"}

\* a Public service with two prefixes on the primary host, next to a Job whose
\* override declares a prefix on the other host
C18_Witness ==
    /\ Resolved
    /\ \E k \in 1..Len(Services) :
          /\ Services[k].service_type = "Job"
          /\ DeclaredPrefixes(Services[k].name) # <<>>
          /\ HostNameOf(Services[k].name) = "alt"
    /\ Cardinality(DeclarationsOn("main")) = 2
    /\ Len(Rules) = 2
    /\ EntriesFor(DomainN) = {}

----------------------------------------------------------------------------
(* validate *)

Invalid == pc = "invalid"
Validated == pc \notin {"validate", "invalid"}
DeploymentExists ==
    \E k \in 1..Len(env_spec.deployments) : env_spec.deployments[k].name = deployment_name
Supplies(n) ==
    \E k \in 1..Len(Deployed.environment) : Deployed.environment[k].name = n
\* the external entries the deployment has to supply and does not
Unsupplied ==
    {k \in 1..Len(External) : External[k].default = None /\ ~Supplies(External[k].name)}
NotProvided ==
    "Environment variables required by application are not provided by deployment"
\* the checks validate makes before it looks at the variables
ApplicationMatches ==
    /\ DeploymentExists
    /\ Deployed.application.name = app_spec.name
    /\ \/ Deployed.application.version = None
       \/ app_spec.version \in Deployed.application.version[1]

\* C19: when an external entry has no default and the deployment's environment
\* supplies no value for its name, validate fails, and (the deployment being
\* the one for this application and version) its error names exactly the
\* entries in that case, in declaration order, and the deployment; an entry
\* with a default or a supplied value is never named and never causes it.
C19_MissingExternal ==
    /\ (DeploymentExists /\ Unsupplied # {}) => ~Validated
    /\ (Invalid /\ ApplicationMatches /\ Unsupplied # {})
          => /\ result.err.msg = NotProvided
             /\ result.err.arg[2] = deployment_name
             /\ Len(result.err.arg[1]) = Cardinality(Unsupplied)
             /\ \A k \in Unsupplied : \E i \in DOMAIN result.err.arg[1] :
                   /\ result.err.arg[1][i] = External[k].name
                   /\ \A l \in Unsupplied : \A j \in DOMAIN result.err.arg[1] :
                         (result.err.arg[1][j] = External[l].name /\ k < l) => i < j
    /\ (Invalid /\ result.err.msg = NotProvided) => Unsupplied # {}

\* two entries lack a default and a value; a third name is supplied
C19_Witness ==
    /\ Invalid
    /\ result = Err(NotProvided, <<(<<NameA, NameB>>), "prod">>)
    /\ Supplies(NameC)

\* the names validate counts as declared, and the ones only the optional tier has
CheckedNames ==
    {External[k].name : k \in 1..Len(External)}
    \cup {Relative[k].name : k \in 1..Len(Relative)}
    \cup {Internal[k].name : k \in 1..Len(Internal)}
OptionalOnlyNames == {Optional[k].name : k \in 1..Len(Optional)} \ CheckedNames
BareNames ==
    UNION {{Services[k].environment[i].name :
               i \in {j \in 1..Len(Services[k].environment) :
                         Services[k].environment[j].kind = "Simple"}} :
              k \in 1..Len(Services)}
\* every check of validate other than the one of the selectors passes
RequirementsProvided ==
    /\ \A k \in 1..Len(app_spec.secrets) : \E j \in 1..Len(Deployed.secrets) :
          Deployed.secrets[j].secret_name = app_spec.secrets[k].secret_name
    /\ \A k \in 1..Len(app_spec.configs) : \E j \in 1..Len(Deployed.configs) :
          Deployed.configs[j].name = app_spec.configs[k].name
ConfiguredServicesKnown ==
    \/ Deployed.services = None
    \/ DOMAIN Deployed.services[1] \subseteq {Services[k].name : k \in 1..Len(Services)}
OtherChecksPass ==
    /\ ApplicationMatches
    /\ Unsupplied = {}
    /\ RequirementsProvided
    /\ ConfiguredServicesKnown

\* C20: validate does not check a bare-name selector that names a variable
\* declared only in the optional tier: with every other check passing, and the
\* other bare names declared, validation passes; the run then succeeds only
\* when the deployment supplies a value for each such name.
C20_OptionalSelectorPasses ==
    (/\ OtherChecksPass
     /\ BareNames \cap OptionalOnlyNames # {}
     /\ BareNames \subseteq CheckedNames \cup OptionalOnlyNames)
        => /\ ~Invalid
           /\ Resolved => \A n \in BareNames \cap OptionalOnlyNames : Supplies(n)

DeploymentNotFound == "Deployment not found in envspec"
AnotherApplication == "Deployment expects application, but appspec is for another"
VersionNotSatisfied == "App version does not satisfy deployment requirement"
Requirement == Deployed.application.version
RefusedBy(m) == ~Validated /\ (Invalid => result.err.msg = m)

\* C21: validate fails when no deployment has the given name, when the
\* deployment's application name differs from the application's name, and when
\* the deployment declares a version range the application's version does not
\* satisfy; a deployment without a version range never fails on the version.
C21_DeploymentMatches ==
    /\ ~DeploymentExists => RefusedBy(DeploymentNotFound)
    /\ (DeploymentExists /\ Deployed.application.name # app_spec.name)
          => RefusedBy(AnotherApplication)
    /\ (/\ DeploymentExists
        /\ Deployed.application.name = app_spec.name
        /\ Requirement # None
        /\ app_spec.version \notin Requirement[1])
          => RefusedBy(VersionNotSatisfied)
    /\ (Invalid /\ result.err.msg = VersionNotSatisfied)
          => Requirement # None /\ app_spec.version \notin Requirement[1]
    /\ (Invalid /\ result.err.msg \in {DeploymentNotFound, AnotherApplication})
          => ~ApplicationMatches

\* the application's version is outside the range of its deployment
C21_Witness ==
    /\ Invalid
    /\ result = Err(VersionNotSatisfied, <<1, 2, 3>>)
    /\ Requirement = Some({<<2, 0, 0>>})

----------------------------------------------------------------------------
(* The Local environment descriptor *)

Converted == pc \notin {"convert_env_spec", "rejected"}
Rejected == pc = "rejected"
\* the services a deployment configures, as (deployment, service name)
ConfiguredIn(deployments) ==
    UNION {{<<d, n>> : n \in IF deployments[d].services = None THEN {}
                             ELSE DOMAIN deployments[d].services[1]} :
              d \in 1..Len(deployments)}
PortsIn(deployments, o) == deployments[o[1]].services[1][o[2]].ports
SomePortless(deployments) ==
    \E o \in ConfiguredIn(deployments) : PortsIn(deployments, o) = <<>>
OneDeployment == "For Local environment exactly one deployment must be specified"
NoPort == "In Local environment, service must have at least one port"
\* nothing else of a Local descriptor is refused before its deployments are counted
LocalSettingsPass ==
    /\ env_yaml.env_type = "Local"
    /\ env_yaml.swarm_mode = None
    /\ env_yaml.ingress_type = None
    /\ env_yaml.registry = None \/ DOMAIN env_yaml.registry[1] = {}

\* C22: every Local environment descriptor that convert_env_spec accepts has
\* exactly one deployment, and every service that deployment configures has at
\* least one port; a Local descriptor with two deployments, or with a service
\* without ports, is rejected, with the error of that check when its other
\* settings pass.
C22_LocalInvariant ==
    /\ (Converted /\ env_spec.env_type = Local)
          => /\ Len(env_spec.deployments) = 1
             /\ ~SomePortless(env_spec.deployments)
    /\ (/\ env_yaml.env_type = "Local"
        /\ Len(env_yaml.deployments) # 1 \/ SomePortless(env_yaml.deployments))
          => ~Converted
    /\ (Rejected /\ LocalSettingsPass /\ Len(env_yaml.deployments) # 1)
          => result.err.msg = OneDeployment
    /\ (/\ Rejected /\ LocalSettingsPass /\ Len(env_yaml.deployments) = 1
        /\ SomePortless(env_yaml.deployments))
          => result.err.msg = NoPort

\* the one deployment of a Local descriptor configures a service without ports
C22_Witness ==
    /\ Rejected
    /\ result.err.msg = NoPort
    /\ Len(env_yaml.deployments) = 1
    /\ env_yaml.deployments[1].services[1]["api"].ports = <<>>

----------------------------------------------------------------------------
(* The descriptor micro-grammar *)

Parsed == pc = "parsed"
Quotes == {DOUBLE_QUOTE, SINGLE_QUOTE}
\* s without the whitespace around it
Inside(s) ==
    LET solid == {k \in 1..Len(s) : s[k] # SPACE}
    IN IF solid = {} THEN <<>> ELSE SubSeq(s, MinOf(solid), MaxOf(solid))
HasEquals(s) == \E k \in 1..Len(s) : s[k] = EQUALS
FirstEquals(s) == MinOf({k \in 1..Len(s) : s[k] = EQUALS})
GivenName == Inside(SubSeq(Inside(input), 1, FirstEquals(Inside(input)) - 1))
GivenValue ==
    Inside(SubSeq(Inside(input), FirstEquals(Inside(input)) + 1, Len(Inside(input))))
\* fully wrapped in matching quotes
Wrapped(v) == Len(v) >= 2 /\ v[1] \in Quotes /\ v[Len(v)] = v[1]
Unwrapped(v) == SubSeq(v, 2, Len(v) - 1)
LoneQuote(v) == Len(v) = 1 /\ v[1] \in Quotes
Accepts(name, default) == result.ok /\ result.val = [name |-> name, default |-> default]
Refuses == ~result.ok

\* C23 as stated: trimmed input; no '=' gives the name and no value; otherwise
\* name and value are the trimmed parts around the first '=', the value is taken
\* as is when it has no '=', loses one layer of quotes when fully wrapped in
\* matching quotes, and is rejected when it has an unquoted '='; an empty input
\* and an empty name are rejected.
C23_Original ==
    Parsed =>
        IF Inside(input) = <<>> THEN Refuses
        ELSE IF ~HasEquals(Inside(input)) THEN Accepts(Inside(input), None)
        ELSE IF GivenName = <<>> THEN Refuses
        ELSE IF Wrapped(GivenValue) THEN Accepts(GivenName, Some(Unwrapped(GivenValue)))
        ELSE IF HasEquals(GivenValue) THEN Refuses
        ELSE Accepts(GivenName, Some(GivenValue))

\* C23: as stated, except that a value which is one quote character alone is
\* rejected instead of being taken as is.
C23_MicroGrammar ==
    Parsed =>
        IF Inside(input) = <<>> THEN Refuses
        ELSE IF ~HasEquals(Inside(input)) THEN Accepts(Inside(input), None)
        ELSE IF GivenName = <<>> THEN Refuses
        ELSE IF Wrapped(GivenValue) THEN Accepts(GivenName, Some(Unwrapped(GivenValue)))
        ELSE IF LoneQuote(GivenValue) THEN Refuses
        ELSE IF HasEquals(GivenValue) THEN Refuses
        ELSE Accepts(GivenName, Some(GivenValue))

\* F="=" gives F the value =
C23_Witness ==
    /\ Parsed
    /\ input = <<"F", EQUALS, DOUBLE_QUOTE, EQUALS, DOUBLE_QUOTE>>
    /\ Accepts(<<"F">>, Some(<<EQUALS>>))

\* C24: a value that opens a single or double quote which is never closed is
\* rejected.
C24_UnterminatedQuote ==
    (/\ Parsed
     /\ Inside(input) # <<>>
     /\ HasEquals(Inside(input))
     /\ GivenName # <<>>
     /\ GivenValue # <<>>
     /\ GivenValue[1] \in Quotes
     /\ \A k \in 2..Len(GivenValue) : GivenValue[k] # GivenValue[1])
        => Refuses

----------------------------------------------------------------------------
(* Determinism *)

\* what the configs step can produce from the inputs of the run
ConfigOutcomes ==
    {ResolveConfigsFrom(app_spec, deployment.configs, listed, 1) : listed \in Listings(os)}

\* C25: resolve is deterministic: from the same descriptors, deployment name,
\* process environment and files it returns the same outcome, whatever the
\* order in which a directory is listed.  Every step of resolve but the
\* reading of the config files is a function of the descriptors and of what
\* was resolved so far; the reading of the config files has one outcome.
C25_Deterministic ==
    pc = "configs" => Cardinality(ConfigOutcomes) = 1

----------------------------------------------------------------------------
(* The host of a service *)

HostNotFound == "Host not found in ingress spec"
\* the services whose effective host is no ingress host with a domain name
Hostless == {k \in 1..Len(Services) : DomainsOf(HostNameOf(Services[k].name)) = <<>>}
\* the run failed at service k: the services before it are resolved, it is not
FailedAt(k) == ResolveFailed /\ Len(resolved_services) = k - 1

\* C26: the effective host name of every service, whatever its type, must name
\* an ingress host with at least one domain name; otherwise resolve fails, and
\* a run that fails at such a service fails with this error and nothing else:
\* the check comes before the image, the uniqueness of the prefixes, the
\* variables, the configs and the secrets of the service.
C26_HostKnown ==
    /\ Hostless # {} => pc \notin {"ingress", "resolved"}
    /\ \A k \in Hostless :
          /\ k > Len(resolved_services)
          /\ FailedAt(k) => result = Err(HostNotFound, HostNameOf(Services[k].name))
    /\ (ResolveFailed /\ result.err.msg = HostNotFound)
          => Len(resolved_services) + 1 \in Hostless

\* a Job on an ingress host without domain names, whose override repeats a
\* prefix, fails on the host after a Public service was resolved
C26_Witness ==
    /\ FailedAt(2)
    /\ result = Err(HostNotFound, "bare")
    /\ Services[2].service_type = "Job"
    /\ Services[1].service_type = "Public"
    /\ Len(DeclaredPrefixes(Services[2].name)) = 2
    /\ DeclaredPrefixes(Services[2].name)[1] = DeclaredPrefixes(Services[2].name)[2]

----------------------------------------------------------------------------
(* The accumulator of the four tier passes *)

TierPasses == {"external", "optional", "relative", "internal"}
\* the entry a tier pass is at
CurrentEntry == app_spec.environment[pc][idx]
NamesOnce(vs) == \A i, j \in 1..Len(vs) : vs[i].name = vs[j].name => i = j
Kept(k) ==
    /\ k <= Len(environment_variables')
    /\ environment_variables'[k] = environment_variables[k]
KeptInPlace(k) ==
    /\ k <= Len(environment_variables')
    /\ environment_variables'[k].name = environment_variables[k].name

\* a step of a tier pass leaves every binding of the accumulator as it was
AppendOnlyStep ==
    pc \in TierPasses => \A k \in 1..Len(environment_variables) : Kept(k)

\* C27 as stated: the accumulator of the tier passes is append-only and
\* name-unique: resolving an entry never changes the value of a name an earlier
\* entry put in the accumulator, also when two entries declare the same name,
\* and no name occurs twice.
C27_Original ==
    /\ [][AppendOnlyStep]_allVars
    /\ [](NamesOnce(environment_variables))

\* a step of a tier pass touches the binding of the entry's name only
OwnNameStep ==
    pc \in TierPasses =>
        /\ \A k \in 1..Len(environment_variables) :
              /\ KeptInPlace(k)
              /\ (environment_variables[k].name # CurrentEntry.name => Kept(k))
        /\ Len(environment_variables') <= Len(environment_variables) + 1
        /\ (Len(environment_variables') > Len(environment_variables)
              => environment_variables'[Len(environment_variables')].name =
                    CurrentEntry.name)
        /\ ((pc = "internal" /\ pc' # "failed" /\ ~HasReference(CurrentEntry.value))
              => ValueOf(environment_variables', CurrentEntry.name) =
                    CurrentEntry.value)

\* C27: the accumulator of the tier passes is name-unique and keeps the place
\* of every name: resolving an entry never changes the value of another name,
\* and adds at most one name, at the end; an entry that declares a name an
\* earlier entry already put in the accumulator replaces the value of that
\* name (an internal entry without references leaves its own value there).
C27_NameUnique ==
    /\ [][OwnNameStep]_allVars
    /\ [](NamesOnce(environment_variables))

\* an internal entry has replaced the value an external entry of its name had
C27_Witness ==
    /\ pc = "vars_resolved"
    /\ External = <<[name |-> NameA, default |-> Some(<<"d">>)]>>
    /\ Internal = <<[name |-> NameA, value |-> <<"i">>]>>
    /\ ~IsSupplied(NameA)
    /\ environment_variables = <<[name |-> NameA, value |-> <<"i">>]>>

----------------------------------------------------------------------------
(* The undockerized variables of a service *)

PrimaryValues == deployment.environment
UndockerizedValues == deployment.undockerized_environment
NamesIn(vs) == {vs[k].name : k \in 1..Len(vs)}
Overridden == NamesIn(UndockerizedValues)
\* the value the last undockerized override of n carries
OverrideOf(n) ==
    UndockerizedValues[MaxOf({k \in 1..Len(UndockerizedValues) :
                                 UndockerizedValues[k].name = n})].value
\* the undockerized overrides that bring a name the primary overrides lack, at
\* the first place each name has
Brought ==
    {k \in 1..Len(UndockerizedValues) :
        /\ UndockerizedValues[k].name \notin NamesIn(PrimaryValues)
        /\ \A j \in 1..(k - 1) : UndockerizedValues[j].name # UndockerizedValues[k].name}
Ascending(I) ==
    CHOOSE f \in [1..Cardinality(I) -> I] : \A a, b \in 1..Cardinality(I) : a < b => f[a] < f[b]
\* the primary overrides, each with the value of its undockerized override if
\* it has one, then the names only the undockerized overrides have
MergedValues ==
    [k \in 1..Len(PrimaryValues) |->
        [name |-> PrimaryValues[k].name,
         value |-> IF PrimaryValues[k].name \in Overridden
                   THEN OverrideOf(PrimaryValues[k].name)
                   ELSE PrimaryValues[k].value]]
    \o [k \in 1..Cardinality(Brought) |->
           [name |-> UndockerizedValues[Ascending(Brought)[k]].name,
            value |-> OverrideOf(UndockerizedValues[Ascending(Brought)[k]].name)]]

\* the texts that give n its value for a service: tier declarations and
\* name=value selectors
TextsOf(svc, n) ==
    {Relative[k].relative_value : k \in {j \in 1..Len(Relative) : Relative[j].name = n}}
    \cup {Internal[k].value : k \in {j \in 1..Len(Internal) : Internal[j].name = n}}
    \cup {svc.environment[k].value :
             k \in {j \in 1..Len(svc.environment) :
                       /\ svc.environment[j].kind = "WithValue"
                       /\ svc.environment[j].name = n}}
VariableNames == {NameA, NameB, NameC, NameD, NameZ}
\* the names whose value depends on an overridden name, over at most depth
\* references
RECURSIVE DependsOnOverride(_, _)
DependsOnOverride(svc, depth) ==
    IF depth = 0 THEN Overridden
    ELSE LET below == DependsOnOverride(svc, depth - 1)
         IN below \cup {n \in VariableNames :
                          \E t \in TextsOf(svc, n), m \in below : Mentions(t, m)}
Dependent(svc) == DependsOnOverride(svc, Cardinality(VariableNames))
\* n has not the same binding in the two lists
Differs(primary, undockerized, n) ==
    \/ IsBound(primary, n) # IsBound(undockerized, n)
    \/ /\ IsBound(primary, n)
       /\ IsBound(undockerized, n)
       /\ ValueOf(primary, n) # ValueOf(undockerized, n)

\* C28: the undockerized variable list of every resolved service is the result
\* of the tier pipeline and the service's selectors on the deployment's
\* overrides merged with the undockerized ones (an undockerized override replaces
\* the value of a same-named primary override, else it is appended), as the
\* primary list is their result on the primary overrides; without undockerized
\* overrides the two lists are equal, and a name bound differently in the two
\* lists depends on an overridden name.
C28_Undockerized ==
    \A k \in 1..Len(resolved_services) :
        LET svc == Services[k]
            service == resolved_services[k]
            primary == service.environment_variables
            undockerized == service.undockerized_environment_variables
        IN /\ Ok(primary) = ServiceEnv(app_spec, svc, PrimaryValues, service.service_host)
           /\ Ok(undockerized) =
                 ServiceEnv(app_spec, svc, MergedValues, service.service_host)
           /\ UndockerizedValues = <<>> => undockerized = primary
           /\ \A n \in VariableNames :
                 Differs(primary, undockerized, n) => n \in Dependent(svc)

\* an undockerized override of A has replaced the primary one and a service
\* has another value for D, which mentions A, in its undockerized list
C28_Witness ==
    /\ pc = "resolved"
    /\ NameA \in Overridden
    /\ NameA \in NamesIn(PrimaryValues)
    /\ Cardinality(Brought) = 1
    /\ \E k \in 1..Len(resolved_services) :
          /\ Differs(resolved_services[k].environment_variables,
                     resolved_services[k].undockerized_environment_variables, NameD)
          /\ ~Differs(resolved_services[k].environment_variables,
                      resolved_services[k].undockerized_environment_variables, NameC)
          /\ IsBound(resolved_services[k].environment_variables, NameC)

----------------------------------------------------------------------------
(* The port an ingress rule routes to *)

\* the resolved records that carry the full name n
RecordsOf(n) ==
    {k \in 1..Len(result.val.current_deployment.services) :
        result.val.current_deployment.services[k].full_name = n}
PortsOf(k) == result.val.current_deployment.services[k].ports
RoutingPort(ports) ==
    IF \E i \in 1..Len(ports) : ports[i].external = 80 THEN 80
    ELSE IF ports # <<>> THEN ports[1].external
    ELSE 80

\* C29: every ingress rule names one resolved service, and its port is chosen
\* from the port list of that service's resolved record: 80 when the list has
\* an entry whose external port is 80, otherwise the external port of its first
\* entry, otherwise (empty list) 80.
C29_RoutingPort ==
    Resolved =>
        \A k \in 1..Len(Rules) : \A i \in 1..Len(Rules[k].services) :
            LET rule == Rules[k].services[i]
            IN /\ Cardinality(RecordsOf(rule.service_name)) = 1
               /\ \A r \in RecordsOf(rule.service_name) :
                     rule.port = RoutingPort(PortsOf(r))

\* one rule routes to 80 for a record whose first port is another one, and
\* another rule routes to the only port of its record, which is not 80
C29_Witness ==
    /\ Resolved
    /\ \E k \in 1..Len(Rules) : \E i, j \in 1..Len(Rules[k].services) :
          /\ Rules[k].services[i].port = 80
          /\ \E r \in RecordsOf(Rules[k].services[i].service_name) :
                Len(PortsOf(r)) = 2 /\ PortsOf(r)[1].external # 80
          /\ Rules[k].services[j].port # 80

----------------------------------------------------------------------------
(* Validation and resolution on variables *)

MissingExternal == "Missing external env variable"
VariableErrors == {MissingExternal, UndefinedEnvVar}
\* the run is in resolve(), past the lookup of the deployment
InResolve == pc \in {"configs", "secrets", "services", "ingress", "resolved", "failed"}
\* the two variable lists of a service, under any domain of the ingress
VariableLists(svc) ==
    {ServiceEnv(app_spec, svc, values, h) :
        values \in {PrimaryValues, MergedValues}, h \in {DomainM, DomainX}}

\* C30: after validate has accepted the descriptors, resolve does not fail
\* with a missing external variable nor with an undefined variable of a bare
\* name selector, and neither the primary nor the undockerized variable list of
\* any service does.
C30_ValidatedVariables ==
    /\ ResolveFailed => result.err.msg \notin VariableErrors
    /\ InResolve =>
          \A k \in 1..Len(Services) : \A r \in VariableLists(Services[k]) :
              r.ok \/ r.err.msg \notin VariableErrors

\* a validated run has resolved a service with bare name selectors, an external
\* variable without default, and an undockerized override
C30_Witness ==
    /\ Resolved
    /\ \E k \in 1..Len(External) : External[k].default = None
    /\ UndockerizedValues # <<>>
    /\ \E k \in 1..Len(Services) : \E j \in 1..Len(Services[k].environment) :
          Services[k].environment[j].kind = "Simple"

====
